---- MODULE Spec2Model ----
(***************************************************************************)
(* A model of the matrix-expression language of trinity: the tokeniser     *)
(* (matrix/expression/tokenise.rs), the parser                             *)
(* (matrix/expression/parser/nom_impl.rs and parser/mod.rs), the           *)
(* pretty-printer and the evaluator (matrix/expression/ast.rs).            *)
(*                                                                         *)
(* Strings are sequences of one-character strings, so that "AB" is         *)
(* <<"A", "B">> and a cursor can be moved along them.                      *)
(***************************************************************************)
EXTENDS Integers, Sequences, FiniteSets, TLC

VARIABLES
    pc,          \* which call has been made so far
    expression,  \* the &str handed to tokenise_expression / parse_expression_from_string
    tokenised,   \* the result of tokenise_expression
    tokens,      \* the token list handed to parse_tokens_into_ast
    ast,         \* the result of parse_tokens_into_ast / parse_expression_from_string
    original,    \* the AstNode handed to to_expression_string
    env,         \* the MatrixMap handed to evaluate; the map of set and get
    value,       \* the result of evaluate, of set or of get
    call,        \* the last call of set or get on the map, with its arguments
    written,     \* for each name, the value of its last successful set
    names,       \* the result of named_matrices
    run,         \* a call of integer_power in progress: its arguments and locals
    frame        \* the parsing function being executed and its token list

vars ==
    <<pc, expression, tokenised, tokens, ast, original, env, value, call, written,
      names, run, frame>>

\* The value of a variable that no call has written yet.
NotYet == [type |-> "NotYet"]

(***************************************************************************)
(* Bounds of the model.                                                    *)
(***************************************************************************)
\* Longest input string, in characters.
MaxLen == 4

\* Longest token list that is tried with every combination of tokens.
MaxTokens == 3

\* Most terms in a chain  term op term op ...  of the token lists.
MaxTerms == 3

\* The most operators of an AST handed to to_expression_string.
MaxOps == 2

\* The largest whole power a matrix is raised to.
MaxPower == 15

\* The largest whole power a matrix is inverted at: m ^ -MaxInverse.
MaxInverse == 4

(***************************************************************************)
(* Characters                                                              *)
(***************************************************************************)
Upper == {"A", "B", "C", "D", "E", "F", "G", "H", "I", "J", "K", "L", "M",
          "N", "O", "P", "Q", "R", "S", "T", "U", "V", "W", "X", "Y", "Z"}

Lower == {"a", "b", "c", "d", "e", "f", "g", "h", "i", "j", "k", "l", "m",
          "n", "o", "p", "q", "r", "s", "t", "u", "v", "w", "x", "y", "z"}

Digit == {"0", "1", "2", "3", "4", "5", "6", "7", "8", "9"}

DigitValue == "0" :> 0 @@ "1" :> 1 @@ "2" :> 2 @@ "3" :> 3 @@ "4" :> 4 @@
              "5" :> 5 @@ "6" :> 6 @@ "7" :> 7 @@ "8" :> 8 @@ "9" :> 9

\* The characters nom's multispace1 accepts; "\t", "\n" and "\r" are written
\* as the two-character names TAB, LF, CR since they are single characters.
Whitespace == {" ", "TAB", "LF", "CR"}

\* [A-Za-z0-9_], the class of the second and later characters of REGEX_STRING.
NameChar == Upper \cup Lower \cup Digit \cup {"_"}

\* s[from..], the rest of the input after the cursor moved `n` characters.
Drop(s, n) == SubSeq(s, n + 1, Len(s))

\* s[..n]
Take(s, n) == SubSeq(s, 1, n)

\* Number of leading characters of s that lie in class.
LeadingRun(s, class) ==
    IF s = <<>> \/ s[1] \notin class THEN 0
    ELSE LET ends == {k \in 1..Len(s) : \A i \in 1..k : s[i] \in class}
         IN  CHOOSE k \in ends : \A j \in ends : j <= k

\* The character at position i of s, "" when s ends before it.
At(s, i) == IF i \in 1..Len(s) THEN s[i] ELSE ""

\* digit0: the leading decimal digits of s.
Digits(s) == Take(s, LeadingRun(s, Digit))

\* Does s start with the characters of prefix?
StartsWith(s, prefix) ==
    /\ Len(s) >= Len(prefix)
    /\ Take(s, Len(prefix)) = prefix

(***************************************************************************)
(* Numbers.  A numeric literal denotes  m * 10^e  and is kept in that      *)
(* form: m carries the sign and has no trailing zero (zero is m = 0,       *)
(* e = 0).  nom's `float` parses to f32 and the tokeniser widens the       *)
(* result (`num as f64`), so a literal that is not exactly an f32 is       *)
(* marked single = TRUE: its value is the f32 nearest to m * 10^e, which   *)
(* is a different f64 from the decimal itself.                             *)
(***************************************************************************)
Dec(m, e) == [kind |-> "dec", m |-> m, e |-> e, single |-> FALSE]

NaN == [kind |-> "nan", m |-> 0, e |-> 0, single |-> FALSE]

Infinity == [kind |-> "inf", m |-> 1, e |-> 0, single |-> FALSE]

RECURSIVE Normalise(_, _)
\* The canonical form of m * 10^e.
Normalise(m, e) ==
    IF m = 0 THEN Dec(0, 0)
    ELSE IF m % 10 = 0 THEN Normalise(m \div 10, e + 1)
    ELSE Dec(m, e)

RECURSIVE DigitsValue(_)
\* The number a run of decimal digits denotes.
DigitsValue(digits) ==
    IF digits = <<>> THEN 0
    ELSE DigitsValue(Take(digits, Len(digits) - 1)) * 10 + DigitValue[digits[Len(digits)]]

RECURSIVE OddPart(_)
OddPart(n) == IF n # 0 /\ n % 2 = 0 THEN OddPart(n \div 2) ELSE n

\* 2^24: an f32 has a 24-bit significand.
SingleSignificand == 16777216

RECURSIVE TimesFive(_, _)
\* n * 5^k, or SingleSignificand as soon as the product reaches it.
TimesFive(n, k) ==
    IF n >= SingleSignificand THEN SingleSignificand
    ELSE IF k = 0 THEN n
    ELSE TimesFive(n * 5, k - 1)

RECURSIVE DivFive(_, _)
\* n / 5^k when 5^k divides n, and 0 otherwise (n > 0).
DivFive(n, k) ==
    IF k = 0 THEN n
    ELSE IF n % 5 # 0 THEN 0
    ELSE DivFive(n \div 5, k - 1)

\* Is m * 10^e (m > 0, normalised) exactly an f32?  It is when its odd part
\* fits the significand; the binary exponent is in range for every literal
\* whose m fits a machine word and whose |e| is below 11.
ExactSingle(m, e) ==
    IF m = 0 THEN TRUE
    ELSE IF e >= 0
         THEN e < 11 /\ TimesFive(OddPart(m), e) < SingleSignificand
         ELSE -e < 14 /\ DivFive(m, -e) # 0
                      /\ OddPart(DivFive(m, -e)) < SingleSignificand

\* str::parse::<f32>() of a lexeme that recognize_float accepted, widened to
\* f64: integer digits, fraction digits and the signed exponent.
ParseSingle(sign, int, frac, exp) ==
    LET Signed(n) == [n EXCEPT !.m = sign * n.m, !.single = ~ExactSingle(n.m, n.e)]
    IN  Signed(Normalise(DigitsValue(int \o frac), exp - Len(frac)))

\* The value of a literal as printed by f64's Display (`number.to_string()`):
\* plain decimal notation, never an exponent, "-" for a negative value.
RECURSIVE NatToString(_)
NatToString(n) ==
    LET d == CHOOSE c \in Digit : DigitValue[c] = n % 10
    IN  IF n < 10 THEN <<d>> ELSE NatToString(n \div 10) \o <<d>>

Zeros(k) == [i \in 1..k |-> "0"]

NumberToString(num) ==
    IF num.kind = "nan" THEN <<"N", "a", "N">>
    ELSE IF num.kind = "inf"
    THEN (IF num.m < 0 THEN <<"-">> ELSE <<>>) \o <<"i", "n", "f">>
    ELSE LET Plain(sign, digits) ==
                 IF num.e >= 0 THEN sign \o digits \o Zeros(num.e)
                 ELSE IF Len(digits) > -num.e
                 THEN sign \o Take(digits, Len(digits) + num.e) \o <<".">>
                           \o Drop(digits, Len(digits) + num.e)
                 ELSE sign \o <<"0", ".">> \o Zeros(-num.e - Len(digits)) \o digits
         IN  Plain(IF num.m < 0 THEN <<"-">> ELSE <<>>,
                   NatToString(IF num.m < 0 THEN -num.m ELSE num.m))

(***************************************************************************)
(* Tokens (tokenise.rs, enum Token) and nom's IResult                      *)
(***************************************************************************)
NamedMatrixToken(name) == [type |-> "NamedMatrix", name |-> name]

NumberToken(num) == [type |-> "Number", value |-> num]

Basic(type) == [type |-> type]

\* Ok((rest, out)) of an IResult.
Done(rest, out) == [ok |-> TRUE, rest |-> rest, out |-> out]

\* Err(nom::Err::Error(Error::new(input, code))): a recoverable error.
Error(input, code) == [ok |-> FALSE, err |-> "Error", input |-> input, code |-> code]

\* Err(nom::Err::Failure(..)): an unrecoverable error, which `alt`, `opt` and
\* `many1` hand on instead of trying something else.
Failure(input, code) == [ok |-> FALSE, err |-> "Failure", input |-> input, code |-> code]

\* MatrixName::is_valid: FULL_MATRIX_NAME_REGEX, ^[A-Z][A-Za-z0-9_]*$, matches
\* when the whole string is one uppercase letter and then name characters.
is_valid(name) ==
    /\ Len(name) >= 1
    /\ name[1] \in Upper
    /\ \A i \in 2..Len(name) : name[i] \in NameChar

\* LeadingMatch with a character class that leaves out the uppercase letters
\* after the first character: ^[A-Z][a-z0-9_]*.
LeadingMatchLowercase(input) ==
    IF input = <<>> \/ input[1] \notin Upper THEN 0
    ELSE 1 + LeadingRun(Drop(input, 1), NameChar \ Upper)

\* The length of the match of LEADING_MATRIX_NAME_REGEX, ^[A-Z][A-Za-z0-9_]*,
\* at the start of input: the star is greedy, so it is the longest one.
\* 0 when there is no match.
LeadingMatch(input) ==
    IF input = <<>> \/ input[1] \notin Upper THEN 0
    ELSE 1 + LeadingRun(Drop(input, 1), NameChar)

\* re_find(LEADING_MATRIX_NAME_REGEX).map(|name| Token::NamedMatrix(..))
tokenise_named_matrix(input) ==
    LET Found(n) ==
            IF n = 0 THEN Error(input, "RegexpFind")
            ELSE Done(Drop(input, n), NamedMatrixToken(Take(input, n)))
    IN  Found(LeadingMatch(input))

\* tag("rot")
tokenise_rot(input) ==
    IF StartsWith(input, <<"r", "o", "t">>)
    THEN Done(Drop(input, 3), Basic("Rot"))
    ELSE Error(input, "Tag")

Punctuation ==
    "+" :> "Plus" @@ "-" :> "Minus" @@ "*" :> "Star" @@ "/" :> "Slash" @@
    "^" :> "Caret" @@ ";" :> "Semicolon" @@ "(" :> "OpenParen" @@
    ")" :> "CloseParen" @@ "[" :> "OpenSquareBracket" @@
    "]" :> "CloseSquareBracket" @@ "{" :> "OpenBrace" @@ "}" :> "CloseBrace"

\* alt((tag("+"), tag("-"), ...)): one punctuation character.
tokenise_punctuation(input) ==
    IF input # <<>> /\ input[1] \in DOMAIN Punctuation
    THEN Done(Drop(input, 1), Basic(Punctuation[input[1]]))
    ELSE Error(input, "Tag")

\* tag_no_case compares letters without their case; only the letters of
\* "nan" and "inf" are needed.
CaseFold(c) ==
    IF c \in {"N", "A", "I", "F"}
    THEN ("N" :> "n" @@ "A" :> "a" @@ "I" :> "i" @@ "F" :> "f")[c]
    ELSE c

StartsWithNoCase(s, prefix) ==
    /\ Len(s) >= Len(prefix)
    /\ \A i \in 1..Len(prefix) : CaseFold(s[i]) = prefix[i]

\* nom::number::complete::recognize_float followed by parse_to:
\*   opt(sign), digit1 opt('.' opt(digit1)) | '.' digit1,
\*   opt(('e' | 'E'), opt(sign), cut(digit1))
\* The `cut` turns a missing exponent digit into a Failure.
recognize_float(input) ==
    LET \* opt(tuple((alt((char('e'), char('E'))), opt(sign), cut(digit1))))
        \* after the p characters of the sign and the mantissa
        ExponentPart(sign, int, frac, p) ==
            LET eSignLen == IF At(input, p + 2) \in {"+", "-"} THEN 1 ELSE 0
                eSign    == IF At(input, p + 2) = "-" THEN -1 ELSE 1
                eDigits  == Digits(Drop(input, p + 1 + eSignLen))
            IN  IF At(input, p + 1) \notin {"e", "E"}
                THEN Done(Drop(input, p), ParseSingle(sign, int, frac, 0))
                ELSE IF eDigits = <<>> THEN Failure(input, "Float")
                ELSE Done(Drop(input, p + 1 + eSignLen + Len(eDigits)),
                          ParseSingle(sign, int, frac, eSign * DigitsValue(eDigits)))
        \* with integer digits the point and the fraction are optional;
        \* without them a point and at least one digit are required
        Mantissa(sign, signLen, int, hasPoint, frac) ==
            IF int = <<>> /\ ~(hasPoint /\ frac # <<>>) THEN Error(input, "Float")
            ELSE ExponentPart(sign, int, frac,
                              signLen + Len(int) + (IF hasPoint THEN 1 + Len(frac) ELSE 0))
        Point(sign, signLen, int) ==
            Mantissa(sign, signLen, int, At(input, signLen + Len(int) + 1) = ".",
                     IF At(input, signLen + Len(int) + 1) = "."
                     THEN Digits(Drop(input, signLen + Len(int) + 1)) ELSE <<>>)
        OptSign(signLen) ==
            Point(IF At(input, 1) = "-" THEN -1 ELSE 1, signLen, Digits(Drop(input, signLen)))
    IN  OptSign(IF At(input, 1) \in {"+", "-"} THEN 1 ELSE 0)

\* recognize_float_or_exceptions: a float, else "nan", else "inf" (the
\* alternative "infinity" comes after "inf" and so never gets its turn).
float(input) ==
    LET OrExceptions(r) ==
            IF r.ok \/ r.err = "Failure" THEN r
            ELSE IF StartsWithNoCase(input, <<"n", "a", "n">>) THEN Done(Drop(input, 3), NaN)
            ELSE IF StartsWithNoCase(input, <<"i", "n", "f">>)
            THEN Done(Drop(input, 3), Infinity)
            ELSE Error(input, "Float")
    IN  OrExceptions(recognize_float(input))

\* float.map(|num| Token::Number(num as f64))
tokenise_number(input) ==
    LET Map(r) == IF r.ok THEN Done(r.rest, NumberToken(r.out)) ELSE r
    IN  Map(float(input))

\* multispace1: one or more of space, tab, line feed, carriage return.
multispace1(input) ==
    LET Found(n) == IF n = 0 THEN Error(input, "MultiSpace") ELSE Done(Drop(input, n), "None")
    IN  Found(LeadingRun(input, Whitespace))

\* Some(token) of the closure `.map(Some)`; whitespace maps to None.
Some(token) == <<token>>

None == <<>>

\* The alternatives with tokenise_number tried before tokenise_punctuation.
TokeniseOne_number_first(input) ==
    LET Alt(named, rot, punct, num, space) ==
            IF named.ok THEN Done(named.rest, Some(named.out))
            ELSE IF rot.ok THEN Done(rot.rest, Some(rot.out))
            ELSE IF num.ok THEN Done(num.rest, Some(num.out))
            ELSE IF num.err = "Failure" THEN num
            ELSE IF punct.ok THEN Done(punct.rest, Some(punct.out))
            ELSE IF space.ok THEN Done(space.rest, None)
            ELSE space
    IN  Alt(tokenise_named_matrix(input), tokenise_rot(input), tokenise_punctuation(input),
            tokenise_number(input), multispace1(input))

\* The alt((..)) of tokenise_expression: the first alternative that does not
\* fail with a recoverable error decides; when all fail, the error of the
\* last one (multispace1) is the result.
TokeniseOne(input) ==
    LET Alt(named, rot, punct, num, space) ==
            IF named.ok THEN Done(named.rest, Some(named.out))
            ELSE IF rot.ok THEN Done(rot.rest, Some(rot.out))
            ELSE IF punct.ok THEN Done(punct.rest, Some(punct.out))
            ELSE IF num.ok THEN Done(num.rest, Some(num.out))
            ELSE IF num.err = "Failure" THEN num
            ELSE IF space.ok THEN Done(space.rest, None)
            ELSE space
    IN  Alt(tokenise_named_matrix(input), tokenise_rot(input), tokenise_punctuation(input),
            tokenise_number(input), multispace1(input))

RECURSIVE Many(_, _)
\* The loop of nom's many1 after the first element: apply the parser until
\* it fails; a recoverable error ends the loop with what was collected, a
\* Failure is the result.  (Every alternative consumes at least one
\* character, so many1's infinite-loop check never triggers.)
Many(input, acc) ==
    LET Loop(r) ==
            IF r.ok THEN Many(r.rest, Append(acc, r.out))
            ELSE IF r.err = "Failure" THEN r
            ELSE Done(input, acc)
    IN  Loop(TokeniseOne(input))

\* many1(alt((..))): the first application must succeed.
many1(input) ==
    LET First(r) == IF r.ok THEN Many(r.rest, <<r.out>>) ELSE r
    IN  First(TokeniseOne(input))

RECURSIVE Flatten(_)
\* opt_tokens.into_iter().flatten().collect()
Flatten(opts) ==
    IF opts = <<>> THEN <<>> ELSE opts[1] \o Flatten(Tail(opts))

\* Result<Vec<Token>, TokeniseError>
TokensOk(toks) == [type |-> "Ok", tokens |-> toks]

TokeniseNomError(e) == [type |-> "NomError", nom_error |-> e]

TokeniseUnconsumedInput(rest) == [type |-> "UnconsumedInput", rest |-> rest]

\* tokenise_expression without the check for input that remains.
tokenise_expression_unchecked(expr) ==
    LET Result(r) == IF ~r.ok THEN TokeniseNomError(r) ELSE TokensOk(Flatten(r.out))
    IN  Result(many1(expr))

tokenise_expression(expr) ==
    LET Result(r) ==
            IF ~r.ok THEN TokeniseNomError(r)
            ELSE IF r.rest # <<>> THEN TokeniseUnconsumedInput(r.rest)
            ELSE TokensOk(Flatten(r.out))
    IN  Result(many1(expr))

(***************************************************************************)
(* The AST (ast.rs, enum AstNode).  A DMat2 / DMat3 is stored by columns,  *)
(* as glam does: x_axis is the first column.                               *)
(***************************************************************************)
Multiply(left, right) == [type |-> "Multiply", left |-> left, right |-> right]

Divide(left, right) == [type |-> "Divide", left |-> left, right |-> right]

Add(left, right) == [type |-> "Add", left |-> left, right |-> right]

Negate(term) == [type |-> "Negate", term |-> term]

Exponent(base, power) == [type |-> "Exponent", base |-> base, power |-> power]

Number(num) == [type |-> "Number", value |-> num]

NamedMatrix(name) == [type |-> "NamedMatrix", name |-> name]

RotationMatrix(degrees) == [type |-> "RotationMatrix", degrees |-> degrees]

\* DVec2::new(x, y), DMat2::from_cols(x_axis, y_axis)
DVec2(x, y) == <<x, y>>

DMat2(x_axis, y_axis) == [x_axis |-> x_axis, y_axis |-> y_axis]

DVec3(x, y, z) == <<x, y, z>>

DMat3(x_axis, y_axis, z_axis) == [x_axis |-> x_axis, y_axis |-> y_axis, z_axis |-> z_axis]

Anonymous2dMatrix(matrix) == [type |-> "Anonymous2dMatrix", matrix |-> matrix]

Anonymous3dMatrix(matrix) == [type |-> "Anonymous3dMatrix", matrix |-> matrix]

(***************************************************************************)
(* The parser (parser/nom_impl.rs).  A TokenList is a sequence of tokens;  *)
(* every function returns Done(rest, node) or Error(input, code).          *)
(***************************************************************************)
\* take(1usize): split off the first token, or fail on an empty list.
take1(toks) ==
    IF toks = <<>> THEN Error(toks, "Eof") ELSE Done(Tail(toks), toks[1])

\* consume_basic_token(expected_token)(tokens)
consume_basic_token(expected_token, toks) ==
    LET Taken(t) ==
            IF ~t.ok THEN t
            ELSE IF t.out = Basic(expected_token) THEN Done(t.rest, <<>>)
            ELSE Error(toks, "Tag")
    IN  Taken(take1(toks))

parse_number(toks) ==
    LET Taken(t) ==
            IF ~t.ok THEN t
            ELSE IF t.out.type = "Number" THEN Done(t.rest, Number(t.out.value))
            ELSE Error(toks, "Tag")
    IN  Taken(take1(toks))

parse_named_matrix(toks) ==
    LET Taken(t) ==
            IF ~t.ok THEN t
            ELSE IF t.out.type = "NamedMatrix" THEN Done(t.rest, NamedMatrix(t.out.name))
            ELSE Error(toks, "Tag")
    IN  Taken(take1(toks))

RECURSIVE Sequence(_, _, _)
\* The pattern `let (tokens, x) = p(tokens)?; ...` over a list of steps, each
\* either a basic token to consume or "NUMBER" for parse_number: the numbers
\* parsed, in order, or the error of the first step that fails.
Sequence(steps, toks, acc) ==
    IF steps = <<>> THEN Done(toks, acc)
    ELSE LET Then(r) ==
                 IF ~r.ok THEN r
                 ELSE Sequence(Tail(steps), r.rest,
                               IF steps[1] = "NUMBER" THEN Append(acc, r.out.value) ELSE acc)
         IN  Then(IF steps[1] = "NUMBER" THEN parse_number(toks)
                  ELSE consume_basic_token(steps[1], toks))

\* tuple((Rot, OpenParen, parse_number, CloseParen))
parse_rotation_matrix(toks) ==
    LET Map(r) == IF ~r.ok THEN r ELSE Done(r.rest, RotationMatrix(r.out[1]))
    IN  Map(Sequence(<<"Rot", "OpenParen", "NUMBER", "CloseParen">>, toks, <<>>))

\* [ix jx; iy jy]: the columns are (ix, iy) and (jx, jy).
parse_anonymous_2d_matrix(toks) ==
    LET Matrix2(rest, ix, jx, iy, jy) ==
            Done(rest, Anonymous2dMatrix(DMat2(DVec2(ix, iy), DVec2(jx, jy))))
        Map(r) ==
            IF ~r.ok THEN r ELSE Matrix2(r.rest, r.out[1], r.out[2], r.out[3], r.out[4])
    IN  Map(Sequence(<<"OpenSquareBracket", "NUMBER", "NUMBER", "Semicolon",
                       "NUMBER", "NUMBER", "CloseSquareBracket">>, toks, <<>>))

parse_anonymous_3d_matrix(toks) ==
    LET Matrix3(rest, ix, jx, kx, iy, jy, ky, iz, jz, kz) ==
            Done(rest, Anonymous3dMatrix(DMat3(DVec3(ix, iy, iz),
                                               DVec3(jx, jy, jz),
                                               DVec3(kx, ky, kz))))
        Map(r) ==
            IF ~r.ok THEN r
            ELSE Matrix3(r.rest, r.out[1], r.out[2], r.out[3], r.out[4], r.out[5],
                         r.out[6], r.out[7], r.out[8], r.out[9])
    IN  Map(Sequence(<<"OpenSquareBracket", "NUMBER", "NUMBER", "NUMBER", "Semicolon",
                       "NUMBER", "NUMBER", "NUMBER", "Semicolon",
                       "NUMBER", "NUMBER", "NUMBER", "CloseSquareBracket">>, toks, <<>>))

RECURSIVE parse_addition(_), parse_multiply(_), parse_divide(_), parse_exponent(_), parse_term(_)

\* parse_expression is parse_addition.
parse_expression(toks) == parse_addition(toks)

\* multiply, then, if a Plus follows, the rest as another addition.
parse_addition(toks) ==
    LET Right(left, r) == IF ~r.ok THEN r ELSE Done(r.rest, Add(left, r.out))
        Operator(l, op) ==
            IF ~op.ok THEN Done(l.rest, l.out) ELSE Right(l.out, parse_addition(op.rest))
        Left(l) == IF ~l.ok THEN l ELSE Operator(l, consume_basic_token("Plus", l.rest))
    IN  Left(parse_multiply(toks))

\* parse_multiply with its operands parsed one level too low: the right
\* operand of a Star taken as a whole addition.
parse_multiply_low(toks) ==
    LET Right(left, r) == IF ~r.ok THEN r ELSE Done(r.rest, Multiply(left, r.out))
        Operator(l, op) ==
            IF ~op.ok THEN Done(l.rest, l.out) ELSE Right(l.out, parse_addition(op.rest))
        Left(l) == IF ~l.ok THEN l ELSE Operator(l, consume_basic_token("Star", l.rest))
    IN  Left(parse_divide(toks))

\* divide, then, if a Star follows, the rest as another multiplication.
parse_multiply(toks) ==
    LET Right(left, r) == IF ~r.ok THEN r ELSE Done(r.rest, Multiply(left, r.out))
        Operator(l, op) ==
            IF ~op.ok THEN Done(l.rest, l.out) ELSE Right(l.out, parse_multiply(op.rest))
        Left(l) == IF ~l.ok THEN l ELSE Operator(l, consume_basic_token("Star", l.rest))
    IN  Left(parse_divide(toks))

\* exponent, then, if a Slash follows, the rest as another division.
parse_divide(toks) ==
    LET Right(left, r) == IF ~r.ok THEN r ELSE Done(r.rest, Divide(left, r.out))
        Operator(l, op) ==
            IF ~op.ok THEN Done(l.rest, l.out) ELSE Right(l.out, parse_divide(op.rest))
        Left(l) == IF ~l.ok THEN l ELSE Operator(l, consume_basic_token("Slash", l.rest))
    IN  Left(parse_exponent(toks))

\* term, then, if a Caret follows, the power: an exponent, which an
\* OpenBrace and a CloseBrace may enclose.
parse_exponent(toks) ==
    LET Built(base, p) == IF ~p.ok THEN p ELSE Done(p.rest, Exponent(base, p.out))
        Closed(p, close) == IF ~close.ok THEN close ELSE Done(close.rest, p.out)
        Braced(p) == IF ~p.ok THEN p ELSE Closed(p, consume_basic_token("CloseBrace", p.rest))
        Power(caret, open) ==
            IF open.ok THEN Braced(parse_exponent(open.rest)) ELSE parse_exponent(caret.rest)
        Operator(b, caret) ==
            IF ~caret.ok THEN Done(b.rest, b.out)
            ELSE Built(b.out, Power(caret, consume_basic_token("OpenBrace", caret.rest)))
        Base(b) == IF ~b.ok THEN b ELSE Operator(b, consume_basic_token("Caret", b.rest))
    IN  Base(parse_term(toks))

\* A Minus before a term that is dropped: the term itself.
NegatedTerm_unsigned(toks) ==
    LET Term(minus) == IF ~minus.ok THEN minus ELSE parse_term(minus.rest)
    IN  Term(consume_basic_token("Minus", toks))

\* tuple((consume_basic_token(Token::Minus), parse_term)).map(Negate)
NegatedTerm(toks) ==
    LET Map(t) == IF ~t.ok THEN t ELSE Done(t.rest, Negate(t.out))
        Term(minus) == IF ~minus.ok THEN minus ELSE Map(parse_term(minus.rest))
    IN  Term(consume_basic_token("Minus", toks))

\* tuple((OpenParen, parse_expression, CloseParen)).map(|((), e, ())| e)
Parenthesised(toks) ==
    LET Closed(e, close) == IF ~close.ok THEN close ELSE Done(close.rest, e.out)
        Inner(e) == IF ~e.ok THEN e ELSE Closed(e, consume_basic_token("CloseParen", e.rest))
        Opened(open) == IF ~open.ok THEN open ELSE Inner(parse_expression(open.rest))
    IN  Opened(consume_basic_token("OpenParen", toks))

\* alt((..)): the first alternative that succeeds; when none does, the error
\* of the last one.
parse_term(toks) ==
    LET Alt(negated, named, rot, num, anon2, anon3, parenthesised) ==
            IF negated.ok THEN negated
            ELSE IF named.ok THEN named
            ELSE IF rot.ok THEN rot
            ELSE IF num.ok THEN num
            ELSE IF anon2.ok THEN anon2
            ELSE IF anon3.ok THEN anon3
            ELSE parenthesised
    IN  Alt(NegatedTerm(toks), parse_named_matrix(toks), parse_rotation_matrix(toks),
            parse_number(toks), parse_anonymous_2d_matrix(toks),
            parse_anonymous_3d_matrix(toks), Parenthesised(toks))

(***************************************************************************)
(* The calls the parsing functions make.  A frame is a function of         *)
(* nom_impl.rs and the token list it was called with.                      *)
(***************************************************************************)
Frame(fn, toks) == [fn |-> fn, toks |-> toks]

RECURSIVE SequenceCalls(_, _)
\* The calls of the pattern `let (tokens, x) = p(tokens)?; ...`: each step is
\* called with what the steps before it left, up to the first that fails.
SequenceCalls(steps, toks) ==
    IF steps = <<>> THEN {}
    ELSE LET Then(r) == IF r.ok THEN SequenceCalls(Tail(steps), r.rest) ELSE {}
         IN  IF steps[1] = "NUMBER"
             THEN {Frame("parse_number", toks)} \cup Then(parse_number(toks))
             ELSE {Frame("consume_basic_token", toks)}
                      \cup Then(consume_basic_token(steps[1], toks))

\* parse_term's parenthesised alternative calling parse_expression with
\* the list it was given, the OpenParen included.
ParenthesisedCalls_unconsumed(toks) ==
    {Frame("consume_basic_token", toks), Frame("parse_expression", toks)}

\* tuple((consume_basic_token(OpenParen), parse_expression,
\* consume_basic_token(CloseParen)))
ParenthesisedCalls(toks) ==
    LET Inner(e) == IF e.ok THEN {Frame("consume_basic_token", e.rest)} ELSE {}
        Opened(open) ==
            IF open.ok
            THEN {Frame("parse_expression", open.rest)} \cup Inner(parse_expression(open.rest))
            ELSE {}
    IN  {Frame("consume_basic_token", toks)}
            \cup Opened(consume_basic_token("OpenParen", toks))

\* The frames a call of fn with toks calls directly.
Calls(fn, toks) ==
    LET \* lower, then the operator, then the function itself with the rest
        Chain(lower, op, l) ==
            {Frame(lower, toks)}
                \cup (IF ~l.ok THEN {}
                      ELSE {Frame("consume_basic_token", l.rest)}
                               \cup (IF consume_basic_token(op, l.rest).ok
                                     THEN {Frame(fn, Tail(l.rest))} ELSE {}))
        \* the power: in braces, or bare
        Power(rest) ==
            {Frame("consume_basic_token", rest)}
                \cup (IF consume_basic_token("OpenBrace", rest).ok
                      THEN {Frame("parse_exponent", Tail(rest))}
                               \cup (IF parse_exponent(Tail(rest)).ok
                                     THEN {Frame("consume_basic_token",
                                                 parse_exponent(Tail(rest)).rest)}
                                     ELSE {})
                      ELSE {Frame("parse_exponent", rest)})
        Base(b) ==
            {Frame("parse_term", toks)}
                \cup (IF ~b.ok THEN {}
                      ELSE {Frame("consume_basic_token", b.rest)}
                               \cup (IF consume_basic_token("Caret", b.rest).ok
                                     THEN Power(Tail(b.rest)) ELSE {}))
        \* alt((..)): an alternative is called when those before it failed
        Alt(negated, named, rot, num, anon2, anon3) ==
            {Frame("consume_basic_token", toks)}
                \cup (IF consume_basic_token("Minus", toks).ok
                      THEN {Frame("parse_term", Tail(toks))} ELSE {})
                \cup (IF negated THEN {} ELSE {Frame("parse_named_matrix", toks)})
                \cup (IF negated \/ named THEN {}
                      ELSE {Frame("parse_rotation_matrix", toks)})
                \cup (IF negated \/ named \/ rot THEN {} ELSE {Frame("parse_number", toks)})
                \cup (IF negated \/ named \/ rot \/ num THEN {}
                      ELSE {Frame("parse_anonymous_2d_matrix", toks)})
                \cup (IF negated \/ named \/ rot \/ num \/ anon2 THEN {}
                      ELSE {Frame("parse_anonymous_3d_matrix", toks)})
                \cup (IF negated \/ named \/ rot \/ num \/ anon2 \/ anon3 THEN {}
                      ELSE ParenthesisedCalls(toks))
    IN  CASE fn = "parse_tokens_into_ast" -> {Frame("parse_expression", toks)}
          [] fn = "parse_expression" -> {Frame("parse_addition", toks)}
          [] fn = "parse_addition" -> Chain("parse_multiply", "Plus", parse_multiply(toks))
          [] fn = "parse_multiply" -> Chain("parse_divide", "Star", parse_divide(toks))
          [] fn = "parse_divide" -> Chain("parse_exponent", "Slash", parse_exponent(toks))
          [] fn = "parse_exponent" -> Base(parse_term(toks))
          [] fn = "parse_term" ->
                Alt(NegatedTerm(toks).ok, parse_named_matrix(toks).ok,
                    parse_rotation_matrix(toks).ok, parse_number(toks).ok,
                    parse_anonymous_2d_matrix(toks).ok, parse_anonymous_3d_matrix(toks).ok)
          [] fn = "parse_rotation_matrix" ->
                SequenceCalls(<<"Rot", "OpenParen", "NUMBER", "CloseParen">>, toks)
          [] fn = "parse_anonymous_2d_matrix" ->
                SequenceCalls(<<"OpenSquareBracket", "NUMBER", "NUMBER", "Semicolon",
                                "NUMBER", "NUMBER", "CloseSquareBracket">>, toks)
          [] fn = "parse_anonymous_3d_matrix" ->
                SequenceCalls(<<"OpenSquareBracket", "NUMBER", "NUMBER", "NUMBER", "Semicolon",
                                "NUMBER", "NUMBER", "NUMBER", "Semicolon",
                                "NUMBER", "NUMBER", "NUMBER", "CloseSquareBracket">>, toks)
          [] OTHER -> {}

(***************************************************************************)
(* f64 arithmetic of the evaluator.  A value is the fraction n / d in      *)
(* lowest terms with d > 0; d = 0 stands for the infinities (n = 1, -1)    *)
(* and NaN (n = 0).  Rounding is not modelled: the fractions are exact,    *)
(* and the sign of a zero is not kept.  `single` marks a value that was    *)
(* computed from a literal rounded to f32.  A result that is no fraction   *)
(* (a sine, a cosine, a power with a fractional exponent) is kept as the   *)
(* operation and its operands.                                             *)
(***************************************************************************)
Abs(n) == IF n < 0 THEN -n ELSE n

RECURSIVE GCD(_, _)
GCD(a, b) == IF b = 0 THEN a ELSE GCD(b, a % b)

Sign(n) == IF n < 0 THEN -1 ELSE IF n = 0 THEN 0 ELSE 1

\* n / d in lowest terms.
Real(n, d) ==
    IF d = 0 THEN [n |-> Sign(n), d |-> 0, single |-> FALSE]
    ELSE LET g == GCD(Abs(n), Abs(d))
         IN  [n |-> Sign(d) * (n \div g), d |-> Abs(d) \div g, single |-> FALSE]

Rounded(x, single) == [x EXCEPT !.single = single]

\* The result of an operation that is not a fraction.
Opaque(op, args) == [op |-> op, args |-> args]

IsOpaque(x) == "op" \in DOMAIN x

RECURSIVE PowerOfTen(_)
PowerOfTen(k) == IF k = 0 THEN 1 ELSE 10 * PowerOfTen(k - 1)

\* The f64 a literal of a token or of the AST denotes.
ToReal(num) ==
    IF num.kind = "nan" THEN Real(0, 0)
    ELSE IF num.kind = "inf" THEN Real(num.m, 0)
    ELSE Rounded(IF num.e >= 0 THEN Real(num.m * PowerOfTen(num.e), 1)
                 ELSE Real(num.m, PowerOfTen(-num.e)),
                 num.single)

\* a + b
RealAdd(a, b) ==
    IF IsOpaque(a) \/ IsOpaque(b) THEN Opaque("add", <<a, b>>)
    ELSE Rounded(IF a.d = 0 /\ b.d = 0 THEN (IF a.n = b.n THEN a ELSE Real(0, 0))
                 ELSE IF a.d = 0 THEN a
                 ELSE IF b.d = 0 THEN b
                 ELSE Real(a.n * b.d + b.n * a.d, a.d * b.d),
                 a.single \/ b.single)

\* a * b
RealMul(a, b) ==
    IF IsOpaque(a) \/ IsOpaque(b) THEN Opaque("mul", <<a, b>>)
    ELSE Rounded(IF a.d = 0 \/ b.d = 0 THEN Real(a.n * b.n, 0)
                 ELSE Real(a.n * b.n, a.d * b.d),
                 a.single \/ b.single)

\* -a
RealNeg(a) ==
    IF IsOpaque(a) THEN Opaque("neg", <<a>>)
    ELSE [a EXCEPT !.n = -a.n]

\* a.recip(), 1 / a
RealRecip(a) ==
    IF IsOpaque(a) THEN Opaque("recip", <<a>>)
    ELSE Rounded(IF a.d = 0 THEN (IF a.n = 0 THEN a ELSE Real(0, 1))
                 ELSE Real(a.d, a.n),
                 a.single)

\* a / b
RealDiv(a, b) ==
    IF IsOpaque(a) \/ IsOpaque(b) THEN Opaque("div", <<a, b>>)
    ELSE Rounded(IF b.d = 0 /\ b.n # 0
                 THEN (IF a.d = 0 THEN Real(0, 0) ELSE Real(0, 1))
                 ELSE IF b.d = 0 THEN b
                 ELSE IF a.d = 0 THEN Real(a.n * Sign(b.n), 0)
                 ELSE Real(a.n * b.d, a.d * b.n),
                 a.single \/ b.single)

RECURSIVE RealPowNat(_, _)
\* a multiplied k times.
RealPowNat(a, k) == IF k = 0 THEN Real(1, 1) ELSE RealMul(RealPowNat(a, k - 1), a)

IsInteger(a) == ~IsOpaque(a) /\ a.d = 1

\* base.powf(power): a fraction when the power is a whole number.
RealPowf(base, power) ==
    IF IsOpaque(base) \/ ~IsInteger(power) THEN Opaque("powf", <<base, power>>)
    ELSE IF power.n >= 0 THEN Rounded(RealPowNat(base, power.n), base.single \/ power.single)
    ELSE Rounded(RealRecip(RealPowNat(base, -power.n)), base.single \/ power.single)

\* degrees.to_radians().cos() and .sin()
Cos(degrees) == IF degrees = Real(0, 1) THEN Real(1, 1) ELSE Opaque("cos", <<degrees>>)

Sin(degrees) == IF degrees = Real(0, 1) THEN Real(0, 1) ELSE Opaque("sin", <<degrees>>)

(***************************************************************************)
(* Matrices (matrix/mod.rs, Matrix2dOr3d): the dimension and the columns.  *)
(***************************************************************************)
Matrix(dim, cols) == [dim |-> dim, cols |-> cols]

\* Matrix2dOr3d::TwoD(matrix) of a DMat2 of literals, ThreeD of a DMat3
TwoD(m) ==
    Matrix(2, <<<<ToReal(m.x_axis[1]), ToReal(m.x_axis[2])>>,
                <<ToReal(m.y_axis[1]), ToReal(m.y_axis[2])>>>>)

ThreeD(m) ==
    Matrix(3, <<[i \in 1..3 |-> ToReal(m.x_axis[i])],
                [i \in 1..3 |-> ToReal(m.y_axis[i])],
                [i \in 1..3 |-> ToReal(m.z_axis[i])]>>)

\* The entry in row i of column j.
Entry(m, i, j) == m.cols[j][i]

FromEntries(dim, E(_, _)) == Matrix(dim, [j \in 1..dim |-> [i \in 1..dim |-> E(i, j)]])

RECURSIVE Sum(_, _)
\* f[1] + ... + f[n]
Sum(f, n) == IF n = 1 THEN f[1] ELSE RealAdd(Sum(f, n - 1), f[n])

\* a * b of two matrices of one dimension: rows of a times columns of b.
MatMul(a, b) ==
    LET E(i, j) == Sum([k \in 1..a.dim |-> RealMul(Entry(a, i, k), Entry(b, k, j))], a.dim)
    IN  FromEntries(a.dim, E)

MatAdd(a, b) ==
    LET E(i, j) == RealAdd(Entry(a, i, j), Entry(b, i, j))
    IN  FromEntries(a.dim, E)

\* impl Mul<Matrix2dOr3d> for f64, impl Mul<f64> for Matrix2dOr3d
Scale(x, m) ==
    LET E(i, j) == RealMul(x, Entry(m, i, j))
    IN  FromEntries(m.dim, E)

MatNeg(m) ==
    LET E(i, j) == RealNeg(Entry(m, i, j))
    IN  FromEntries(m.dim, E)

Transpose(m) ==
    LET E(i, j) == Entry(m, j, i)
    IN  FromEntries(m.dim, E)

Identity(dim) ==
    LET E(i, j) == IF i = j THEN Real(1, 1) ELSE Real(0, 1)
    IN  FromEntries(dim, E)

RealSub(a, b) == RealAdd(a, RealNeg(b))

Det2(a, b, c, d) == RealSub(RealMul(a, d), RealMul(b, c))

\* The matrix without row i and column j, as the determinant of what is left.
Minor(m, i, j) ==
    LET rows == SelectSeq(<<1, 2, 3>>, LAMBDA r : r # i)
        cols == SelectSeq(<<1, 2, 3>>, LAMBDA c : c # j)
    IN  Det2(Entry(m, rows[1], cols[1]), Entry(m, rows[1], cols[2]),
             Entry(m, rows[2], cols[1]), Entry(m, rows[2], cols[2]))

Cofactor(m, i, j) == IF (i + j) % 2 = 0 THEN Minor(m, i, j) ELSE RealNeg(Minor(m, i, j))

Determinant(m) ==
    IF m.dim = 2
    THEN Det2(Entry(m, 1, 1), Entry(m, 1, 2), Entry(m, 2, 1), Entry(m, 2, 2))
    ELSE Sum([j \in 1..3 |-> RealMul(Entry(m, 1, j), Cofactor(m, 1, j))], 3)

\* glam's inverse: the adjugate times the reciprocal of the determinant.
Inverse(m) ==
    LET inv_det == RealRecip(Determinant(m))
        E2(i, j) == RealMul(inv_det,
                            IF i = j THEN Entry(m, 3 - i, 3 - j) ELSE RealNeg(Entry(m, i, j)))
        E3(i, j) == RealMul(inv_det, Cofactor(m, j, i))
    IN  IF m.dim = 2 THEN FromEntries(2, E2) ELSE FromEntries(3, E3)

Matrix2dOr3d_try_mul(left, right) ==
    IF left.dim = right.dim THEN [ok |-> TRUE, value |-> MatMul(left, right)]
    ELSE [ok |-> FALSE]

Matrix2dOr3d_try_add(left, right) ==
    IF left.dim = right.dim THEN [ok |-> TRUE, value |-> MatAdd(left, right)]
    ELSE [ok |-> FALSE]

(***************************************************************************)
(* integer_power (math/square_multiply.rs) for matrices                    *)
(***************************************************************************)
RECURSIVE ilog2(_)
\* floor(log2(n)) for n >= 1
ilog2(n) == IF n < 2 THEN 0 ELSE 1 + ilog2(n \div 2)

RECURSIVE Pow2(_)
Pow2(k) == IF k = 0 THEN 1 ELSE 2 * Pow2(k - 1)

\* (1 << bit_idx) & power != 0
BitSet(power, bit_idx) == (power \div Pow2(bit_idx)) % 2 = 1

RECURSIVE SquareAndMultiply(_, _, _, _)
\* The loop `for bit_idx in (0..power.ilog2()).rev()`, about to run the
\* iteration of bit_idx (-1 when the loop is over).
SquareAndMultiply(base, power, bit_idx, num) ==
    IF bit_idx < 0 THEN num
    ELSE LET squared == MatMul(num, num)
         IN  SquareAndMultiply(base, power, bit_idx - 1,
                               IF BitSet(power, bit_idx) THEN MatMul(squared, base)
                               ELSE squared)

\* integer_power whose loop starts at the highest set bit itself:
\* `for bit_idx in (0..=power.ilog2()).rev()`.
integer_power_inclusive(base, power) ==
    IF power = 0 THEN Identity(base.dim)
    ELSE SquareAndMultiply(base, power, ilog2(power), base)

integer_power(base, power) ==
    IF power = 0 THEN Identity(base.dim)
    ELSE SquareAndMultiply(base, power, ilog2(power) - 1, base)

(***************************************************************************)
(* The matrix map (matrix/map.rs): the dimension of its matrices and the   *)
(* HashMap, a function from names to matrices.                             *)
(***************************************************************************)
InvalidName(name) == [variant |-> "InvalidName", name |-> name]

NameNotDefined(name) == [variant |-> "NameNotDefined", name |-> name]

MatrixMap_get(map, name) ==
    IF is_valid(name)
    THEN IF name \in DOMAIN map THEN [ok |-> TRUE, value |-> map[name]]
         ELSE [ok |-> FALSE, error |-> NameNotDefined(name)]
    ELSE [ok |-> FALSE, error |-> InvalidName(name)]

\* MatrixMap::new(): a map without a name
MatrixMap_new == [name \in {} |-> NotYet]

\* name.self_is_valid(): the name of this MatrixName is valid
MatrixName_self_is_valid(name) == is_valid(name)

\* Ok(()) of set
Unit == [ok |-> TRUE]

\* set that inserts without validating the name.
MatrixMap_set_unvalidated(map, name, matrix) ==
    [map |-> (name :> matrix) @@ map, result |-> Unit]

\* set that keeps the matrix of a name that is already defined.
MatrixMap_set_if_absent(map, name, matrix) ==
    IF MatrixName_self_is_valid(name)
    THEN [map |-> map @@ (name :> matrix), result |-> Unit]
    ELSE [map |-> map, result |-> [ok |-> FALSE, error |-> InvalidName(name)]]

\* set(&mut self, name, value): the map after the call and what it returns;
\* HashMap::insert replaces the value of a key that is present.
MatrixMap_set(map, name, matrix) ==
    IF MatrixName_self_is_valid(name)
    THEN [map |-> (name :> matrix) @@ map, result |-> Unit]
    ELSE [map |-> map, result |-> [ok |-> FALSE, error |-> InvalidName(name)]]

(***************************************************************************)
(* The evaluator (ast.rs): NumberOrMatrix and AstNode::evaluate            *)
(***************************************************************************)
NumberValue(x) == [type |-> "Number", number |-> x]

MatrixValue(m) == [type |-> "Matrix", matrix |-> m]

Value(v) == [ok |-> TRUE, value |-> v]

EvaluationError(variant) == [ok |-> FALSE, error |-> [variant |-> variant]]

\* EvaluationError::MatrixMapError(e), through #[from]
MatrixMapError(e) == [ok |-> FALSE, error |-> [variant |-> "MatrixMapError", error |-> e]]

\* try_mul with the operands of the matrix product exchanged.
NumberOrMatrix_try_mul_reversed(a, b) ==
    IF a.type = "Number" /\ b.type = "Number"
    THEN Value(NumberValue(RealMul(a.number, b.number)))
    ELSE IF a.type = "Number" THEN Value(MatrixValue(Scale(a.number, b.matrix)))
    ELSE IF b.type = "Number" THEN Value(MatrixValue(Scale(b.number, a.matrix)))
    ELSE IF a.matrix.dim = b.matrix.dim THEN Value(MatrixValue(MatMul(b.matrix, a.matrix)))
    ELSE EvaluationError("CannotMultiplyDifferentDimensions")

NumberOrMatrix_try_mul(a, b) ==
    IF a.type = "Number" /\ b.type = "Number"
    THEN Value(NumberValue(RealMul(a.number, b.number)))
    ELSE IF a.type = "Number" THEN Value(MatrixValue(Scale(a.number, b.matrix)))
    ELSE IF b.type = "Number" THEN Value(MatrixValue(Scale(b.number, a.matrix)))
    ELSE LET r == Matrix2dOr3d_try_mul(a.matrix, b.matrix)
         IN  IF r.ok THEN Value(MatrixValue(r.value))
             ELSE EvaluationError("CannotMultiplyDifferentDimensions")

\* try_div that divides a number by a matrix entry by entry.
NumberOrMatrix_try_div_entries(a, b) ==
    IF a.type = "Number" /\ b.type = "Number"
    THEN Value(NumberValue(RealDiv(a.number, b.number)))
    ELSE IF b.type = "Number" THEN Value(MatrixValue(Scale(RealRecip(b.number), a.matrix)))
    ELSE IF a.type = "Number" THEN Value(MatrixValue(Scale(RealRecip(a.number), b.matrix)))
    ELSE EvaluationError("CannotDivideByMatrix")

NumberOrMatrix_try_div(a, b) ==
    IF b.type = "Matrix" THEN EvaluationError("CannotDivideByMatrix")
    ELSE IF a.type = "Number" THEN Value(NumberValue(RealDiv(a.number, b.number)))
    ELSE Value(MatrixValue(Scale(RealRecip(b.number), a.matrix)))

\* try_add that adds a number to every entry of a matrix.
NumberOrMatrix_try_add_broadcast(a, b) ==
    IF a.type = "Number" /\ b.type = "Number"
    THEN Value(NumberValue(RealAdd(a.number, b.number)))
    ELSE IF a.type = "Matrix" /\ b.type = "Matrix"
    THEN (IF a.matrix.dim = b.matrix.dim THEN Value(MatrixValue(MatAdd(a.matrix, b.matrix)))
          ELSE EvaluationError("CannotAddDifferentDimensions"))
    ELSE IF a.type = "Number"
    THEN Value(MatrixValue(MatAdd(Scale(a.number, Identity(b.matrix.dim)), b.matrix)))
    ELSE Value(MatrixValue(MatAdd(a.matrix, Scale(b.number, Identity(a.matrix.dim)))))

NumberOrMatrix_try_add(a, b) ==
    IF a.type = "Number" /\ b.type = "Number"
    THEN Value(NumberValue(RealAdd(a.number, b.number)))
    ELSE IF a.type = "Matrix" /\ b.type = "Matrix"
    THEN LET r == Matrix2dOr3d_try_add(a.matrix, b.matrix)
         IN  IF r.ok THEN Value(MatrixValue(r.value))
             ELSE EvaluationError("CannotAddDifferentDimensions")
    ELSE EvaluationError("CannotAddNumberAndMatrix")

NumberOrMatrix_negate(a) ==
    IF a.type = "Number" THEN NumberValue(RealNeg(a.number))
    ELSE MatrixValue(MatNeg(a.matrix))

\* The epsilon value to use for relative comparisons, 0.000000001, as its
\* reciprocal.
EPSILON_RECIP == 1000000000

\* |x| <= EPSILON, for a fraction x.
WithinEpsilon(x) ==
    /\ ~IsOpaque(x)
    /\ x.d # 0
    /\ x.n = 0 \/ x.d \div Abs(x.n) >= EPSILON_RECIP

IsNaN(x) == ~IsOpaque(x) /\ x.d = 0 /\ x.n = 0

\* a.relative_eq(&b, EPSILON, default_max_relative()): equal, or both finite
\* and no further apart than EPSILON; the relative test that follows adds
\* nothing below 2^51.
RelativeEq(a, b) ==
    \/ a = b /\ ~IsNaN(a) /\ ~IsOpaque(a)
    \/ WithinEpsilon(RealSub(a, b))

\* power.round(): to the nearest whole number, halves away from zero.
Round(x) ==
    IF IsOpaque(x) \/ x.d = 0 THEN x
    ELSE Rounded(Real(Sign(x.n) * ((Abs(x.n) \div x.d)
                                   + (IF Abs(x.n) % x.d >= x.d - (Abs(x.n) % x.d) THEN 1 ELSE 0)),
                      1),
                 x.single)

\* u16::MAX: `as u16` saturates
U16_MAX == 65535

\* power.round().abs() as u16
AsU16(x) ==
    IF IsOpaque(x) \/ (x.d = 0 /\ x.n = 0) THEN 0
    ELSE IF x.d = 0 \/ Abs(x.n) > U16_MAX THEN U16_MAX
    ELSE Abs(x.n)

\* try_power that rounds every power of a matrix to a whole number.
NumberOrMatrix_try_power_rounding(base, power) ==
    IF power.type = "Matrix" THEN EvaluationError("CannotRaiseToMatrix")
    ELSE IF base.type = "Number"
    THEN Value(NumberValue(RealPowf(base.number, power.number)))
    ELSE Value(MatrixValue(integer_power(base.matrix, AsU16(Round(power.number)))))

\* try_power that inverts without looking at the determinant.
NumberOrMatrix_try_power_unguarded(base, power) ==
    IF power.type = "Matrix" THEN EvaluationError("CannotRaiseToMatrix")
    ELSE IF base.type = "Number"
    THEN Value(NumberValue(RealPowf(base.number, power.number)))
    ELSE IF ~RelativeEq(Round(power.number), power.number)
    THEN EvaluationError("CannotRaiseMatrixToNonInteger")
    ELSE IF Round(power.number).n < 0
    THEN Value(MatrixValue(Inverse(integer_power(base.matrix, AsU16(Round(power.number))))))
    ELSE Value(MatrixValue(integer_power(base.matrix, AsU16(Round(power.number)))))

NumberOrMatrix_try_power(base, power) ==
    IF power.type = "Matrix" THEN EvaluationError("CannotRaiseToMatrix")
    ELSE IF base.type = "Number"
    THEN Value(NumberValue(RealPowf(base.number, power.number)))
    ELSE IF ~RelativeEq(Round(power.number), power.number)
    THEN EvaluationError("CannotRaiseMatrixToNonInteger")
    ELSE LET Inverted(needs_invert, result) ==
                 IF ~needs_invert THEN Value(MatrixValue(result))
                 ELSE IF ~RelativeEq(Determinant(result), Real(0, 1))
                 THEN Value(MatrixValue(Inverse(result)))
                 ELSE EvaluationError("CannotInvertSingularMatrix")
             WithPower(round) ==
                 Inverted(round.n < 0, integer_power(base.matrix, AsU16(round)))
         IN  WithPower(Round(power.number))

NumberOrMatrix_try_transpose(a) ==
    IF a.type = "Number" THEN EvaluationError("CannotTransposeNumber")
    ELSE Value(MatrixValue(Transpose(a.matrix)))

\* DMat2::from_angle(degrees.to_radians())
FromAngle(degrees) ==
    Matrix(2, <<<<Cos(degrees), Sin(degrees)>>, <<RealNeg(Sin(degrees)), Cos(degrees)>>>>)

\* The power of a transposition read as an ordinary power.
is_transpose_never(power) == FALSE

\* *power == Self::NamedMatrix(MatrixName::new("T"))
is_transpose(power) == power = NamedMatrix(<<"T">>)

RECURSIVE evaluate(_, _)
\* `?` returns the error of the left operand before the right is evaluated.
evaluate(node, map) ==
    CASE node.type \in {"Multiply", "Divide", "Add"} ->
            LET l == evaluate(node.left, map)
            IN  IF ~l.ok THEN l
                ELSE LET r == evaluate(node.right, map)
                     IN  IF ~r.ok THEN r
                         ELSE IF node.type = "Multiply"
                         THEN NumberOrMatrix_try_mul(l.value, r.value)
                         ELSE IF node.type = "Divide"
                         THEN NumberOrMatrix_try_div(l.value, r.value)
                         ELSE NumberOrMatrix_try_add(l.value, r.value)
      [] node.type = "Negate" ->
            LET t == evaluate(node.term, map)
            IN  IF ~t.ok THEN t ELSE Value(NumberOrMatrix_negate(t.value))
      [] node.type = "Exponent" ->
            IF is_transpose(node.power)
            THEN LET b == evaluate(node.base, map)
                 IN  IF ~b.ok THEN b ELSE NumberOrMatrix_try_transpose(b.value)
            ELSE LET b == evaluate(node.base, map)
                 IN  IF ~b.ok THEN b
                     ELSE LET p == evaluate(node.power, map)
                          IN  IF ~p.ok THEN p
                              ELSE NumberOrMatrix_try_power(b.value, p.value)
      [] node.type = "Number" -> Value(NumberValue(ToReal(node.value)))
      [] node.type = "NamedMatrix" ->
            LET m == MatrixMap_get(map, node.name)
            IN  IF ~m.ok THEN MatrixMapError(m.error) ELSE Value(MatrixValue(m.value))
      [] node.type = "RotationMatrix" -> Value(MatrixValue(FromAngle(ToReal(node.degrees))))
      [] node.type = "Anonymous2dMatrix" -> Value(MatrixValue(TwoD(node.matrix)))
      [] node.type = "Anonymous3dMatrix" -> Value(MatrixValue(ThreeD(node.matrix)))

(***************************************************************************)
(* The pretty-printer (ast.rs): AstNode::to_expression_string              *)
(***************************************************************************)
RECURSIVE Join(_, _)
\* The strings of a list, with sep between two of them.
Join(strs, sep) ==
    IF Len(strs) = 1 THEN strs[1] ELSE strs[1] \o sep \o Join(Tail(strs), sep)

\* Parentheses at every level, the top level included.
Wrap_always(string, top_level) == <<"(">> \o string \o <<")">>

\* format!("({string})") when the node is not at the top level
Wrap(string, top_level) == IF top_level THEN string ELSE <<"(">> \o string \o <<")">>

RECURSIVE internal_to_expression_string(_, _)
internal_to_expression_string(node, top_level) ==
    CASE node.type \in {"Multiply", "Divide", "Add"} ->
            LET left  == internal_to_expression_string(node.left, FALSE)
                right == internal_to_expression_string(node.right, FALSE)
                op    == CASE node.type = "Multiply" -> "*"
                           [] node.type = "Divide" -> "/"
                           [] node.type = "Add" -> "+"
            IN  Wrap(left \o <<" ", op, " ">> \o right, top_level)
      [] node.type = "Negate" ->
            Wrap(<<"-">> \o internal_to_expression_string(node.term, FALSE), top_level)
      [] node.type = "Exponent" ->
            LET base  == internal_to_expression_string(node.base, FALSE)
                power == internal_to_expression_string(node.power, TRUE)
            IN  Wrap(base \o <<" ", "^", " ", "{">> \o power \o <<"}">>, top_level)
      [] node.type = "Number" -> NumberToString(node.value)
      [] node.type = "NamedMatrix" -> node.name
      [] node.type = "RotationMatrix" ->
            <<"r", "o", "t", "(">> \o NumberToString(node.degrees) \o <<")">>
      [] node.type = "Anonymous2dMatrix" ->
            LET m   == node.matrix
                row(i) == Join(<<NumberToString(m.x_axis[i]), NumberToString(m.y_axis[i])>>,
                               <<" ">>)
            IN  <<"[">> \o Join(<<row(1), row(2)>>, <<";", " ">>) \o <<"]">>
      [] node.type = "Anonymous3dMatrix" ->
            LET m   == node.matrix
                row(i) == Join(<<NumberToString(m.x_axis[i]), NumberToString(m.y_axis[i]),
                                 NumberToString(m.z_axis[i])>>, <<" ">>)
            IN  <<"[">> \o Join(<<row(1), row(2), row(3)>>, <<";", " ">>) \o <<"]">>

to_expression_string(node) == internal_to_expression_string(node, TRUE)

(***************************************************************************)
(* AstNode::named_matrices (ast.rs)                                        *)
(***************************************************************************)
\* No power is taken for a transposition.
power_is_transpose_never(power) == FALSE

\* Every power that is a name is taken for a transposition.
power_is_transpose_any_name(power) == power.type = "NamedMatrix"

\* **power == AstNode::NamedMatrix(MatrixName::new("T"))
power_is_transpose(power) == power = NamedMatrix(<<"T">>)

RECURSIVE named_matrices(_)
\* The names as a Vec<MatrixName>: the left operand's, then the right's.
named_matrices(node) ==
    CASE node.type \in {"Multiply", "Divide", "Add"} ->
            named_matrices(node.left) \o named_matrices(node.right)
      [] node.type = "Negate" -> named_matrices(node.term)
      [] node.type = "Exponent" ->
            IF power_is_transpose(node.power) THEN named_matrices(node.base)
            ELSE named_matrices(node.base) \o named_matrices(node.power)
      [] node.type = "NamedMatrix" -> <<node.name>>
      [] OTHER -> <<>>

(***************************************************************************)
(* parse_tokens_into_ast (parser/mod.rs) and parse_expression_from_string  *)
(* (expression/mod.rs)                                                     *)
(***************************************************************************)
\* Result<AstNode, ParseError>
AstOk(node) == [type |-> "Ok", ast |-> node]

ParseNomError(e) == [type |-> "ParseError", variant |-> "NomError", nom_error |-> e]

ParseUnconsumedInput(toks) ==
    [type |-> "ParseError", variant |-> "UnconsumedInput", tokens |-> toks]

\* parse_tokens_into_ast without the check for tokens that remain.
parse_tokens_into_ast_unchecked(toks) ==
    LET Result(r) == IF ~r.ok THEN ParseNomError(r) ELSE AstOk(r.out)
    IN  Result(parse_expression(toks))

parse_tokens_into_ast(toks) ==
    LET Result(r) ==
            IF ~r.ok THEN ParseNomError(r)
            ELSE IF r.rest # <<>> THEN ParseUnconsumedInput(r.rest)
            ELSE AstOk(r.out)
    IN  Result(parse_expression(toks))

\* TokeniseOrParseError::TokeniseError(e), through the `?` of line 37
TokeniseError(e) == [type |-> "TokeniseError", error |-> e]

parse_expression_from_string(expr) ==
    LET Parse(t) == IF t.type # "Ok" THEN TokeniseError(t) ELSE parse_tokens_into_ast(t.tokens)
    IN  Parse(tokenise_expression(expr))

(***************************************************************************)
(* Inputs                                                                  *)
(***************************************************************************)
\* The characters the strings of the tokeniser's specification are made of:
\* two uppercase letters, a lowercase letter (which is also the exponent
\* marker of a float), a digit, a punctuation character, a space and a
\* character that starts no token.
Alphabet == {"A", "B", "e", "2", "-", " ", "@"}

\* Every string over the alphabet of at most len characters.
Strings(len) == UNION {[1..n -> Alphabet] : n \in 0..len}

\* "3 * [2 -2.2; 1.5 10]", the expression of the evaluation test of
\* ast.rs:473
ScaledLiteral ==
    <<"3", " ", "*", " ", "[", "2", " ", "-", "2", ".", "2", ";", " ",
      "1", ".", "5", " ", "1", "0", "]">>

\* "[1 2 3; 5 3 1; -3 4 2]", a string the printer's test expects
\* (ast.rs:1065)
PrintedLiteral ==
    <<"[", "1", " ", "2", " ", "3", ";", " ", "5", " ", "3", " ", "1", ";", " ",
      "-", "3", " ", "4", " ", "2", "]">>

\* Inputs of the tests of tokenise.rs and expression/mod.rs:
\* "ABC", "Abc", "ABc", "AbC", "aBC", "word", " []@", "2 @ M", "C++", "[1",
\* "M^-1+X", "rot(45)", "2 - 1", "AB", "3M - 2X", "M ^ {-1}", "D/3/2",
\* "[1 2; 3 -5]", "ABC + A2B", and the names "Mat", "A2", "X_Y3" of the
\* test of MatrixName::is_valid
TestExpressions ==
    { <<"A", "B", "C", " ", "+", " ", "A", "2", "B">>,
      <<"M", "a", "t">>, <<"A", "2">>, <<"X", "_", "Y", "3">>,
      <<"A", "B", "C">>, <<"A", "b", "c">>, <<"A", "B", "c">>, <<"A", "b", "C">>,
      <<"a", "B", "C">>, <<"w", "o", "r", "d">>, <<" ", "[", "]", "@">>,
      <<"2", " ", "@", " ", "M">>, <<"C", "+", "+">>, <<"[", "1">>,
      <<"M", "^", "-", "1", "+", "X">>, <<"r", "o", "t", "(", "4", "5", ")">>,
      <<"2", " ", "-", " ", "1">>, <<"A", "B">>,
      <<"3", "M", " ", "-", " ", "2", "X">>,
      <<"M", " ", "^", " ", "{", "-", "1", "}">>, <<"D", "/", "3", "/", "2">>,
      <<"[", "1", " ", "2", ";", " ", "3", " ", "-", "5", "]">>,
      ScaledLiteral, PrintedLiteral }

Expressions(len) == Strings(len) \cup TestExpressions

\* Token lists.
A == NamedMatrixToken(<<"A">>)

B == NamedMatrixToken(<<"B">>)

One == NumberToken(Dec(1, 0))

Two == NumberToken(Dec(2, 0))

\* The tokens every short token list is made of.
TokenAlphabet ==
    {A, Two} \cup {Basic(t) : t \in {"Plus", "Minus", "Star", "Slash", "Caret",
                                     "OpenParen", "CloseParen", "OpenBrace", "CloseBrace",
                                     "Rot", "Semicolon", "OpenSquareBracket",
                                     "CloseSquareBracket"}}

ShortTokenLists(len) == UNION {[1..n -> TokenAlphabet] : n \in 0..len}

\* The terms of a chain: names, a number, and a parenthesised sum.
ChainTerms ==
    { <<A>>, <<B>>, <<Two>>,
      <<Basic("OpenParen"), A, Basic("Plus"), Two, Basic("CloseParen")>> }

\* What stands between two terms of a chain: an operator, or nothing.
ChainOperators ==
    {<<Basic(t)>> : t \in {"Plus", "Minus", "Star", "Slash", "Caret"}} \cup {<<>>}

RECURSIVE Chains(_)
\* term (op term)*, with exactly n terms.
Chains(n) ==
    IF n = 1 THEN ChainTerms
    ELSE {c \o op \o t : c \in Chains(n - 1), op \in ChainOperators, t \in ChainTerms}

\* b ^ { e } for a chain e.
BracedPowers(terms) ==
    {<<A, Basic("Caret"), Basic("OpenBrace")>> \o e \o <<Basic("CloseBrace")>> :
        e \in UNION {Chains(n) : n \in 1..terms}}

\* Token lists of the tests of nom_impl.rs and expression/mod.rs:
\* A + B * C,  A * B + C,  A * (B + C),  A + B / C,
\* M / 2 + B ^ 2 * rot(90),  M ^ {1 + 2},  2 * -1,  M ^ -1,
\* [1 2 ; 1 2],  [1 2 ; 1 -2]
TestTokenLists ==
    { <<A, Basic("Plus"), B, Basic("Star"), Two>>,
      <<A, Basic("Star"), B, Basic("Plus"), Two>>,
      <<A, Basic("Star"), Basic("OpenParen"), B, Basic("Plus"), Two, Basic("CloseParen")>>,
      <<A, Basic("Plus"), B, Basic("Slash"), Two>>,
      <<A, Basic("Slash"), Two, Basic("Plus"), B, Basic("Caret"), Two, Basic("Star"),
        Basic("Rot"), Basic("OpenParen"), One, Basic("CloseParen")>>,
      <<A, Basic("Caret"), Basic("OpenBrace"), One, Basic("Plus"), Two, Basic("CloseBrace")>>,
      <<Two, Basic("Star"), Basic("Minus"), One>>,
      <<A, Basic("Caret"), Basic("Minus"), One>>,
      <<Basic("OpenSquareBracket"), One, Two, Basic("Semicolon"), One, Two,
        Basic("CloseSquareBracket")>>,
      <<Basic("OpenSquareBracket"), One, Two, Basic("Semicolon"), One, Basic("Minus"), Two,
        Basic("CloseSquareBracket")>> }

TokenLists(len, terms) ==
    ShortTokenLists(len) \cup UNION {Chains(n) : n \in 1..terms}
        \cup BracedPowers(terms - 1) \cup TestTokenLists

\* ASTs and maps.
\* The leaves of every AST: 2 and the name A.
CoreLeaves == {Number(Dec(2, 0)), NamedMatrix(<<"A">>)}

\* Leaves of the tests of ast.rs: T of a transposition, -1 of an inverse,
\* a fraction, a rotation, and 2D and 3D matrix literals; [2 2.2; 1.5 10]
\* is the literal of ast.rs:473 with its entries made positive.
TestLeaves ==
    { NamedMatrix(<<"T">>),
      Anonymous2dMatrix(DMat2(DVec2(Dec(2, 0), Dec(15, -1)), DVec2(Dec(22, -1), Dec(1, 1)))),
      Number(Dec(-1, 0)),
      Number(Dec(25, -1)),
      RotationMatrix(Dec(90, 0)),
      Anonymous2dMatrix(DMat2(DVec2(Dec(1, 0), Dec(3, 0)), DVec2(Dec(2, 0), Dec(4, 0)))),
      Anonymous2dMatrix(DMat2(DVec2(Dec(1, 0), Dec(3, 0)), DVec2(Dec(2, 0), Dec(-5, 0)))),
      Anonymous3dMatrix(DMat3(DVec3(Dec(1, 0), Dec(0, 0), Dec(0, 0)),
                              DVec3(Dec(0, 0), Dec(2, 0), Dec(0, 0)),
                              DVec3(Dec(0, 0), Dec(15, -1), Dec(1, 0)))) }

RECURSIVE AstsOver(_, _)
\* The ASTs of at most n operators over a set of leaves.
AstsOver(leaves, n) ==
    IF n <= 0 THEN leaves
    ELSE LET smaller == AstsOver(leaves, n - 1)
             pairs   == UNION {AstsOver(leaves, k) \X AstsOver(leaves, n - 1 - k) : k \in 0..(n - 1)}
         IN  smaller \cup {Negate(t) : t \in smaller}
                     \cup {Multiply(p[1], p[2]) : p \in pairs}
                     \cup {Divide(p[1], p[2]) : p \in pairs}
                     \cup {Add(p[1], p[2]) : p \in pairs}
                     \cup {Exponent(p[1], p[2]) : p \in pairs}

AstNodes(ops) == AstsOver(CoreLeaves, ops) \cup AstsOver(CoreLeaves \cup TestLeaves, ops - 1)

\* A 2D map that defines A (a shear) and B (a reflection), and an empty map.
MapAB ==
    (<<"A">> :> Matrix(2, <<<<Real(1, 1), Real(0, 1)>>, <<Real(1, 1), Real(1, 1)>>>>))
        @@ (<<"B">> :> Matrix(2, <<<<Real(0, 1), Real(1, 1)>>, <<Real(1, 1), Real(0, 1)>>>>))

EmptyMap == [name \in {} |-> NotYet]

Maps == {MapAB, EmptyMap}

\* Inputs of the evaluator.
\* A 2D map that defines A and T, and a 3D map that defines A and B.
MapT ==
    (<<"A">> :> MapAB[<<"A">>]) @@ (<<"T">> :> MapAB[<<"B">>])

Map3 ==
    (<<"A">> :> Matrix(3, <<<<Real(0, 1), Real(1, 1), Real(0, 1)>>,
                            <<Real(0, 1), Real(0, 1), Real(1, 1)>>,
                            <<Real(1, 1), Real(0, 1), Real(0, 1)>>>>))
        @@ (<<"B">> :> Matrix(3, <<<<Real(2, 1), Real(0, 1), Real(0, 1)>>,
                                   <<Real(1, 1), Real(1, 1), Real(0, 1)>>,
                                   <<Real(0, 1), Real(0, 1), Real(1, 2)>>>>))

EvalMaps == {MapAB, EmptyMap, MapT, Map3}

\* [a b; c d], which DMat2 stores by columns
Literal2(a, b, c, d) == Anonymous2dMatrix(DMat2(DVec2(a, c), DVec2(b, d)))

\* The numbers 2, -1, 0 and 2.5.
EvalNumbers ==
    {Number(Dec(2, 0)), Number(Dec(-1, 0)), Number(Dec(0, 0)), Number(Dec(25, -1))}

\* 2D literals: the quarter turn [0 -1; 1 0], the zero matrix of the test
\* of CannotInvertSingularMatrix, [0.5 0; 1 1] and the singular [1 1; 1 1].
Eval2dMatrices ==
    { Literal2(Dec(0, 0), Dec(-1, 0), Dec(1, 0), Dec(0, 0)),
      Literal2(Dec(0, 0), Dec(0, 0), Dec(0, 0), Dec(0, 0)),
      Literal2(Dec(5, -1), Dec(0, 0), Dec(1, 0), Dec(1, 0)),
      Literal2(Dec(1, 0), Dec(1, 0), Dec(1, 0), Dec(1, 0)) }

\* 3D literals: [1 1 0; 0 1 1; 0 0 1] and the singular [1 0 0; 0 0 0; 0 0 1].
Eval3dMatrices ==
    { Anonymous3dMatrix(DMat3(DVec3(Dec(1, 0), Dec(0, 0), Dec(0, 0)),
                              DVec3(Dec(1, 0), Dec(1, 0), Dec(0, 0)),
                              DVec3(Dec(0, 0), Dec(1, 0), Dec(1, 0)))),
      Anonymous3dMatrix(DMat3(DVec3(Dec(1, 0), Dec(0, 0), Dec(0, 0)),
                              DVec3(Dec(0, 0), Dec(0, 0), Dec(0, 0)),
                              DVec3(Dec(0, 0), Dec(0, 0), Dec(1, 0)))) }

EvalNames == {NamedMatrix(<<"A">>), NamedMatrix(<<"B">>), NamedMatrix(<<"T">>)}

EvalLeaves == EvalNumbers \cup Eval2dMatrices \cup Eval3dMatrices \cup EvalNames

\* Operands that are not leaves: a number, a 2D matrix, a transposition,
\* and two that fail (a number plus a matrix, a 2D times a 3D matrix).
EvalCompounds ==
    LET two  == Number(Dec(2, 0))
        turn == Literal2(Dec(0, 0), Dec(-1, 0), Dec(1, 0), Dec(0, 0))
        half == Literal2(Dec(5, -1), Dec(0, 0), Dec(1, 0), Dec(1, 0))
    IN  { Add(two, two), Multiply(two, turn), Negate(half),
          Exponent(half, NamedMatrix(<<"T">>)), Add(two, turn),
          Multiply(turn, CHOOSE m \in Eval3dMatrices : TRUE) }

\* [0.000000001 0; 0 1]: invertible, with the determinant EPSILON.
NearlySingular == Literal2(Dec(1, -9), Dec(0, 0), Dec(0, 0), Dec(1, 0))

\* m ^ k for every matrix and the whole numbers k of -inverse..power, and
\* the powers at the edge of the tolerance: 0.000000001, -1.5, 1.5 (the
\* power of the test of CannotRaiseMatrixToNonInteger).
EvalPowers(power, inverse) ==
    LET bases == Eval2dMatrices \cup Eval3dMatrices \cup {NamedMatrix(<<"A">>)}
    IN  {Exponent(b, Number(Normalise(k, 0))) : b \in bases, k \in (-inverse)..power}
            \cup {Exponent(b, Number(p)) :
                      b \in bases, p \in {Dec(1, -9), Dec(-15, -1), Dec(15, -1)}}
            \cup {Exponent(NearlySingular, Number(Dec(k, 0))) : k \in {-1, 1}}

EvalNodes(power, inverse) ==
    LET operands == EvalLeaves \cup EvalCompounds
    IN  operands \cup {Negate(t) : t \in EvalLeaves}
            \cup {Multiply(l, r) : l \in operands, r \in operands}
            \cup {Divide(l, r) : l \in operands, r \in operands}
            \cup {Add(l, r) : l \in operands, r \in operands}
            \cup {Exponent(l, r) : l \in operands, r \in operands}
            \cup EvalPowers(power, inverse)

(***************************************************************************)
(* The calls                                                               *)
(***************************************************************************)
\* tokenise_expression(expression)
TokeniseExpression ==
    /\ pc = "string"
    /\ tokenised' = tokenise_expression(expression)
    /\ pc' = "tokenised"
    /\ UNCHANGED <<expression, tokens, ast, original, env, value, call, written,
                 names, run, frame>>

\* parse_expression_from_string(expression)
ParseExpressionFromString ==
    /\ pc = "string"
    /\ ast' = parse_expression_from_string(expression)
    /\ pc' = "parsed"
    /\ UNCHANGED <<expression, tokenised, tokens, original, env, value, call, written,
                 names, run, frame>>

\* parse_tokens_into_ast(&tokens)
ParseTokensIntoAst ==
    /\ pc = "tokens"
    /\ ast' = parse_tokens_into_ast(tokens)
    /\ pc' = "parsed"
    /\ UNCHANGED <<expression, tokenised, tokens, original, env, value, call, written,
                 names, run, frame>>

\* An evaluate that defines the name it did not find, as the identity.
EvaluateDefining ==
    /\ pc = "parsed"
    /\ ast.type = "Ok"
    /\ value' = evaluate(ast.ast, env)
    /\ env' = IF ~value'.ok /\ value'.error.variant = "MatrixMapError"
              THEN (value'.error.error.name :> Identity(2)) @@ env
              ELSE env
    /\ pc' = "evaluated"
    /\ UNCHANGED <<expression, tokenised, tokens, ast, original, call, written,
                 names, run, frame>>

\* An evaluate that reports the error of the right operand of its top node
\* before that of the left one.
EvaluateRightFirst ==
    /\ pc = "parsed"
    /\ ast.type = "Ok"
    /\ value' = IF ast.ast.type \in {"Multiply", "Divide", "Add"}
                    /\ ~evaluate(ast.ast.right, env).ok
                 THEN evaluate(ast.ast.right, env)
                 ELSE evaluate(ast.ast, env)
    /\ pc' = "evaluated"
    /\ UNCHANGED <<expression, tokenised, tokens, ast, original, env, call, written,
                   names, run, frame>>

\* ast.evaluate(&map) of the AST a parse returned
Evaluate ==
    /\ pc = "parsed"
    /\ ast.type = "Ok"
    /\ value' = evaluate(ast.ast, env)
    /\ pc' = "evaluated"
    /\ UNCHANGED <<expression, tokenised, tokens, ast, original, env, call, written,
                 names, run, frame>>

\* A Vec a call returned.
Vec(items) == [type |-> "Vec", items |-> items]

\* ast.named_matrices() of the AST a parse returned
NamedMatrices ==
    /\ pc = "parsed"
    /\ ast.type = "Ok"
    /\ names = NotYet
    /\ names' = Vec(named_matrices(ast.ast))
    /\ UNCHANGED <<pc, expression, tokenised, tokens, ast, original, env, value, call,
                   written, run, frame>>

\* node.to_expression_string()
ToExpressionString ==
    /\ pc = "ast"
    /\ expression' = to_expression_string(original)
    /\ pc' = "string"
    /\ UNCHANGED <<tokenised, tokens, ast, original, env, value, call, written,
                 names, run, frame>>

\* A caller holds a string and tokenises or parses it.
InitString ==
    /\ pc = "string"
    /\ expression \in Expressions(MaxLen)
    /\ tokenised = NotYet
    /\ tokens = NotYet
    /\ ast = NotYet
    /\ original = NotYet
    /\ env = NotYet
    /\ value = NotYet
    /\ call = NotYet
    /\ written = NotYet
    /\ names = NotYet
    /\ run = NotYet
    /\ frame = NotYet

NextString == TokeniseExpression \/ ParseExpressionFromString

SpecString == InitString /\ [][NextString]_vars

\* A caller holds a token list and parses it.
InitTokens ==
    /\ pc = "tokens"
    /\ expression = NotYet
    /\ tokenised = NotYet
    /\ tokens \in TokenLists(MaxTokens, MaxTerms)
    /\ ast = NotYet
    /\ original = NotYet
    /\ env = MapAB
    /\ value = NotYet
    /\ call = NotYet
    /\ written = NotYet
    /\ names = NotYet
    /\ run = NotYet
    /\ frame = NotYet

NextTokens == ParseTokensIntoAst \/ Evaluate

SpecTokens == InitTokens /\ [][NextTokens]_vars

\* A caller holds an AST and a map, prints the AST, parses the string and
\* evaluates what the parse returned.
InitAst ==
    /\ pc = "ast"
    /\ expression = NotYet
    /\ tokenised = NotYet
    /\ tokens = NotYet
    /\ ast = NotYet
    /\ original \in AstNodes(MaxOps)
    /\ env \in Maps
    /\ value = NotYet
    /\ call = NotYet
    /\ written = NotYet
    /\ names = NotYet
    /\ run = NotYet
    /\ frame = NotYet

NextAst == ToExpressionString \/ ParseExpressionFromString \/ Evaluate

SpecAst == InitAst /\ [][NextAst]_vars

\* The names handed to set and get: "A", "B" and "M_one" are valid; "m",
\* "X-2" and the empty string are not (MatrixName { name: "m".into() } of
\* the test of map.rs makes such a name).
ValidNames == {<<"A">>, <<"B">>, <<"M", "_", "o", "n", "e">>}

InvalidNames == {<<"m">>, <<"X", "-", "2">>, <<>>}

\* The matrices handed to set.
SetMatrices == {MapAB[<<"A">>], MapAB[<<"B">>]}

\* map.set(name, matrix)
Set ==
    /\ pc = "map"
    /\ \E name \in ValidNames \cup InvalidNames, matrix \in SetMatrices :
          /\ call' = [op |-> "set", name |-> name, matrix |-> matrix]
          /\ env' = MatrixMap_set(env, name, matrix).map
          /\ value' = MatrixMap_set(env, name, matrix).result
          /\ written' = IF MatrixMap_set(env, name, matrix).result.ok
                        THEN (name :> matrix) @@ written
                        ELSE written
    /\ UNCHANGED <<pc, expression, tokenised, tokens, ast, original, names, run, frame>>

\* map.get(&name): `&self`, the map stays as it is
Get ==
    /\ pc = "map"
    /\ \E name \in ValidNames \cup InvalidNames :
          /\ call' = [op |-> "get", name |-> name]
          /\ value' = MatrixMap_get(env, name)
    /\ UNCHANGED <<pc, expression, tokenised, tokens, ast, original, env, written,
                 names, run, frame>>

\* A caller makes a map and calls set and get on it, in any order.
InitMap ==
    /\ pc = "map"
    /\ expression = NotYet
    /\ tokenised = NotYet
    /\ tokens = NotYet
    /\ ast = NotYet
    /\ original = NotYet
    /\ env = MatrixMap_new
    /\ value = NotYet
    /\ call = NotYet
    /\ written = MatrixMap_new
    /\ names = NotYet
    /\ run = NotYet
    /\ frame = NotYet

NextMap == Set \/ Get

SpecMap == InitMap /\ [][NextMap]_vars

\* A caller holds an AST and a map, and evaluates the AST.
InitEval ==
    /\ pc = "parsed"
    /\ expression = NotYet
    /\ tokenised = NotYet
    /\ tokens = NotYet
    /\ ast \in {AstOk(node) : node \in EvalNodes(MaxPower, MaxInverse)}
    /\ original = NotYet
    /\ env \in EvalMaps
    /\ value = NotYet
    /\ call = NotYet
    /\ written = NotYet
    /\ names = NotYet
    /\ run = NotYet
    /\ frame = NotYet

NextEval == Evaluate

SpecEval == InitEval /\ [][NextEval]_vars

\* integer_power(base, power), statement by statement.  `run` holds the
\* arguments, the locals num and bit_idx, the bits the loop has visited,
\* and the number of products num * num and num * base computed so far.
\* The call: `if power == 0 { return POWER_ZERO }`, `let mut num = base`, and
\* the loop `for bit_idx in (0..power.ilog2()).rev()` is entered or is empty;
\* here with the loop entered at the top bit itself.
IntegerPowerEnter_inclusive ==
    /\ pc = "power"
    /\ run' = IF run.power = 0 THEN [run EXCEPT !.num = Identity(run.base.dim)]
               ELSE [run EXCEPT !.num = run.base, !.bit_idx = ilog2(run.power)]
    /\ pc' = IF run.power = 0 THEN "returned" ELSE "loop"
    /\ UNCHANGED <<expression, tokenised, tokens, ast, original, env, value, call, written,
                   names, frame>>

\* The call: `if power == 0 { return POWER_ZERO }`, `let mut num = base`, and
\* the loop `for bit_idx in (0..power.ilog2()).rev()` is entered or is empty.
IntegerPowerEnter ==
    /\ pc = "power"
    /\ run' = IF run.power = 0 THEN [run EXCEPT !.num = Identity(run.base.dim)]
               ELSE [run EXCEPT !.num = run.base, !.bit_idx = ilog2(run.power) - 1]
    /\ pc' = IF run.power = 0 \/ ilog2(run.power) = 0 THEN "returned" ELSE "loop"
    /\ UNCHANGED <<expression, tokenised, tokens, ast, original, env, value, call, written,
                   names, frame>>

\* `num = num * num` at the head of an iteration
Square ==
    /\ pc = "loop"
    /\ run' = [run EXCEPT !.num = MatMul(run.num, run.num),
                           !.squarings = @ + 1,
                           !.visited = Append(@, run.bit_idx)]
    /\ pc' = "squared"
    /\ UNCHANGED <<expression, tokenised, tokens, ast, original, env, value, call, written,
                   names, frame>>

\* `if (1 << bit_idx) & power != 0 { num = num * base }`, and the loop goes
\* on to the next lower bit or ends after bit 0
TestBit ==
    /\ pc = "squared"
    /\ run' = IF BitSet(run.power, run.bit_idx)
               THEN [run EXCEPT !.num = MatMul(run.num, run.base),
                                !.multiplications = @ + 1,
                                !.bit_idx = @ - 1]
               ELSE [run EXCEPT !.bit_idx = @ - 1]
    /\ pc' = IF run.bit_idx = 0 THEN "returned" ELSE "loop"
    /\ UNCHANGED <<expression, tokenised, tokens, ast, original, env, value, call, written,
                   names, frame>>

\* A caller calls integer_power with a 2D matrix and a power.
InitPower ==
    /\ pc = "power"
    /\ expression = NotYet
    /\ tokenised = NotYet
    /\ tokens = NotYet
    /\ ast = NotYet
    /\ original = NotYet
    /\ env = NotYet
    /\ value = NotYet
    /\ call = NotYet
    /\ written = NotYet
    /\ names = NotYet
    /\ run \in { [base |-> b, power |-> k, num |-> NotYet, bit_idx |-> NotYet,
                   visited |-> <<>>, squarings |-> 0, multiplications |-> 0] :
                      b \in {MapAB[<<"A">>], MapAB[<<"B">>], Identity(3)},
                      k \in 0..(2 * MaxPower) }
    /\ frame = NotYet

NextPower == IntegerPowerEnter \/ Square \/ TestBit

SpecPower == InitPower /\ [][NextPower]_vars

\* The function being executed calls one of the functions it calls.
Descend ==
    /\ pc = "parsing"
    /\ \E callee \in Calls(frame.fn, frame.toks) :
          frame' = [fn |-> callee.fn, toks |-> callee.toks, depth |-> frame.depth + 1]
    /\ UNCHANGED <<pc, expression, tokenised, tokens, ast, original, env, value, call,
                   written, names, run>>

\* A function that calls no parsing function returns.
Return ==
    /\ pc = "parsing"
    /\ Calls(frame.fn, frame.toks) = {}
    /\ pc' = "returned"
    /\ UNCHANGED <<expression, tokenised, tokens, ast, original, env, value, call,
                   written, names, run, frame>>

\* parse_tokens_into_ast is called with a token list; the calls that
\* follow are one path down the tree of calls, and depth is its length.
InitDescent ==
    /\ pc = "parsing"
    /\ expression = NotYet
    /\ tokenised = NotYet
    /\ tokens \in ShortTokenLists(MaxTokens - 1) \cup TestTokenLists
                      \cup BracedPowers(MaxTerms - 1)
    /\ ast = NotYet
    /\ original = NotYet
    /\ env = NotYet
    /\ value = NotYet
    /\ call = NotYet
    /\ written = NotYet
    /\ names = NotYet
    /\ run = NotYet
    /\ frame = [fn |-> "parse_tokens_into_ast", toks |-> tokens, depth |-> 0]

NextDescent == Descend \/ Return

SpecDescent == InitDescent /\ [][NextDescent]_vars

\* A caller holds an AST and a map, asks for the names of the AST and
\* evaluates it, in either order.
NextNames == NamedMatrices \/ Evaluate

SpecNames == InitEval /\ [][NextNames]_vars

(***************************************************************************)
(* Properties of the round trip, checked under SpecAst                     *)
(***************************************************************************)
\* C1: the string to_expression_string makes of an AST parses, and the
\* AST parsed from it evaluates, under the same map, to the result the
\* original AST evaluates to: the same value or the same error.
C1_RoundTrip ==
    /\ pc = "parsed" => ast.type = "Ok"
    /\ pc = "evaluated" => value = evaluate(original, env)

(***************************************************************************)
(* Properties of the parser, checked under SpecTokens                      *)
(***************************************************************************)
\* The AST a well-formed token list parses to.
Parsed(toks) == parse_tokens_into_ast(toks).ast

WellFormed(toks) == parse_tokens_into_ast(toks).type = "Ok"

Contains(toks, types) == \E i \in 1..Len(toks) : toks[i].type \in types

\* The operators in the order of their binding strength.
Rank(node) ==
    CASE node.type = "Add" -> 1
      [] node.type = "Multiply" -> 2
      [] node.type = "Divide" -> 3
      [] node.type = "Exponent" -> 4
      [] OTHER -> 5

Children(node) ==
    CASE node.type \in {"Add", "Multiply", "Divide"} -> <<node.left, node.right>>
      [] node.type = "Exponent" -> <<node.base, node.power>>
      [] node.type = "Negate" -> <<node.term>>
      [] OTHER -> <<>>

RECURSIVE PrecedenceOrdered(_)
\* No node has a child that binds looser than the node itself.
PrecedenceOrdered(node) ==
    \A i \in 1..Len(Children(node)) :
        /\ Rank(Children(node)[i]) >= Rank(node)
        /\ PrecedenceOrdered(Children(node)[i])

RECURSIVE Leaves(_)
\* The names and numbers of a tree, from left to right, as tokens; a matrix
\* literal gives its entries in the order they are written, row by row.
Leaves(node) ==
    CASE node.type \in {"Add", "Multiply", "Divide"} -> Leaves(node.left) \o Leaves(node.right)
      [] node.type = "Exponent" -> Leaves(node.base) \o Leaves(node.power)
      [] node.type = "Negate" -> Leaves(node.term)
      [] node.type = "Number" -> <<NumberToken(node.value)>>
      [] node.type = "NamedMatrix" -> <<NamedMatrixToken(node.name)>>
      [] node.type = "RotationMatrix" -> <<NumberToken(node.degrees)>>
      [] node.type = "Anonymous2dMatrix" ->
            LET m == node.matrix
            IN  <<NumberToken(m.x_axis[1]), NumberToken(m.y_axis[1]),
                  NumberToken(m.x_axis[2]), NumberToken(m.y_axis[2])>>
      [] node.type = "Anonymous3dMatrix" ->
            LET m == node.matrix
            IN  [i \in 1..9 |->
                    NumberToken((<<m.x_axis, m.y_axis, m.z_axis>>[((i - 1) % 3) + 1])
                                    [((i - 1) \div 3) + 1])]

IsLeafToken(t) == t.type \in {"NamedMatrix", "Number"}

\* C2: a - b parses to Add(a, Negate(b)), every token consumed.
C2_SubtractionLowered ==
    pc = "parsed" =>
        \A a \in ChainTerms, b \in ChainTerms :
            tokens = a \o <<Basic("Minus")>> \o b
                => ast = AstOk(Add(Parsed(a), Negate(Parsed(b))))

\* C3: two consecutive terms with no Star between them parse as if the Star
\* were written (number then name, name then name, name then parenthesised
\* expression), and a chain of three nests to the right.
C3_ImplicitMultiplication ==
    pc = "parsed" =>
        /\ \A a \in ChainTerms, b \in ChainTerms :
              /\ a \in {<<A>>, <<B>>, <<Two>>}
              /\ b # <<Two>>
              /\ a = <<Two>> => b \in {<<A>>, <<B>>}
              /\ tokens = a \o b
              => ast = AstOk(Multiply(Parsed(a), Parsed(b)))
        /\ tokens = <<A, B, A>>
              => ast = AstOk(Multiply(NamedMatrix(<<"A">>),
                                      Multiply(NamedMatrix(<<"B">>), NamedMatrix(<<"A">>))))

\* C4: chains of / and of + nest to the left: a / b / c parses to
\* Divide(Divide(a, b), c) and a + b + c to Add(Add(a, b), c), so that
\* 2 / 2 / 2 evaluates to (2 / 2) / 2 and 2 - 2 - 2 to (2 - 2) - 2.
C4_LeftAssociative ==
    /\ pc \in {"parsed", "evaluated"} =>
          \A a \in ChainTerms, b \in ChainTerms, c \in ChainTerms :
              /\ tokens = a \o <<Basic("Slash")>> \o b \o <<Basic("Slash")>> \o c
                    => ast = AstOk(Divide(Divide(Parsed(a), Parsed(b)), Parsed(c)))
              /\ tokens = a \o <<Basic("Plus")>> \o b \o <<Basic("Plus")>> \o c
                    => ast = AstOk(Add(Add(Parsed(a), Parsed(b)), Parsed(c)))
    /\ (pc = "evaluated" /\ tokens = <<Two, Basic("Slash"), Two, Basic("Slash"), Two>>)
          => value = Value(NumberValue(Real(1, 2)))
    /\ (pc = "parsed" /\ tokens = <<Two, Basic("Minus"), Two, Basic("Minus"), Two>>)
          => /\ ast.type = "Ok"
             /\ evaluate(ast.ast, env) = Value(NumberValue(Real(-2, 1)))

\* C5: + binds loosest, then *, then /, then ^; a parenthesised expression
\* is a single term.  In the tree of a token list without parentheses and
\* braces no operator has an operand that binds looser than itself.
C5_Precedence ==
    pc = "parsed" =>
        /\ (ast.type = "Ok" /\ ~Contains(tokens, {"OpenParen", "OpenBrace"}))
              => PrecedenceOrdered(ast.ast)
        /\ \A a \in ChainTerms, b \in ChainTerms, c \in ChainTerms :
              /\ tokens = a \o <<Basic("Plus")>> \o b \o <<Basic("Star")>> \o c
                    => ast = AstOk(Add(Parsed(a), Multiply(Parsed(b), Parsed(c))))
              /\ tokens = a \o <<Basic("Star")>> \o b \o <<Basic("Plus")>> \o c
                    => ast = AstOk(Add(Multiply(Parsed(a), Parsed(b)), Parsed(c)))
              /\ tokens = a \o <<Basic("Plus")>> \o b \o <<Basic("Slash")>> \o c
                    => ast = AstOk(Add(Parsed(a), Divide(Parsed(b), Parsed(c))))
        /\ tokens = <<A, Basic("Slash"), Two, Basic("Plus"), B, Basic("Caret"), Two,
                      Basic("Star"), Basic("Rot"), Basic("OpenParen"), One, Basic("CloseParen")>>
              => ast = AstOk(Add(Divide(NamedMatrix(<<"A">>), Number(Dec(2, 0))),
                                 Multiply(Exponent(NamedMatrix(<<"B">>), Number(Dec(2, 0))),
                                          RotationMatrix(Dec(1, 0)))))
        /\ tokens = <<A, Basic("Star"), Basic("OpenParen"), B, Basic("Plus"), Two,
                      Basic("CloseParen")>>
              => ast = AstOk(Multiply(NamedMatrix(<<"A">>),
                                      Add(NamedMatrix(<<"B">>), Number(Dec(2, 0)))))

\* C5's case happens: A * B + 2 was parsed.
C5_Witness ==
    /\ pc = "parsed"
    /\ tokens = <<A, Basic("Star"), B, Basic("Plus"), Two>>
    /\ ast = AstOk(Add(Multiply(NamedMatrix(<<"A">>), NamedMatrix(<<"B">>)), Number(Dec(2, 0))))

\* C6: b ^ { e } parses to Exponent(b, parse(e)) for every well-formed e.
C6_BracedPower ==
    pc = "parsed" =>
        \A n \in 1..(MaxTerms - 1) : \A e \in Chains(n) :
            (WellFormed(e) /\ tokens = <<A, Basic("Caret"), Basic("OpenBrace")>> \o e
                                            \o <<Basic("CloseBrace")>>)
                => ast = AstOk(Exponent(NamedMatrix(<<"A">>), Parsed(e)))

\* C10: Ok only when every token was consumed, so that the leaves of the
\* tree are the names and numbers of the whole list; UnconsumedInput carries
\* the tokens after a prefix that parses, in their order; any other outcome
\* is a nom error, which carries no tree.
C10_ParseOutcome ==
    pc = "parsed" =>
        /\ ast.type \in {"Ok", "ParseError"}
        /\ ast.type = "Ok" =>
              /\ parse_expression(tokens) = Done(<<>>, ast.ast)
              /\ Leaves(ast.ast) = SelectSeq(tokens, IsLeafToken)
        /\ ast.type = "ParseError" =>
              /\ "ast" \notin DOMAIN ast
              /\ ast.variant \in {"NomError", "UnconsumedInput"}
              /\ ast.variant = "UnconsumedInput" =>
                    \E k \in 1..(Len(tokens) - 1) :
                        /\ ast.tokens = Drop(tokens, k)
                        /\ WellFormed(Take(tokens, k))
              /\ ast.variant = "NomError" =>
                    \A k \in 1..Len(tokens) :
                        WellFormed(Take(tokens, k)) => k < Len(tokens)
        /\ (parse_expression(tokens).ok /\ parse_expression(tokens).rest # <<>>)
              => ast = ParseUnconsumedInput(parse_expression(tokens).rest)

\* C10's case happens: a prefix parsed and two tokens were left over.
C10_Witness ==
    /\ pc = "parsed"
    /\ tokens = <<A, Basic("CloseParen"), Two>>
    /\ ast = ParseUnconsumedInput(<<Basic("CloseParen"), Two>>)

(***************************************************************************)
(* Properties of the tokeniser, checked under SpecString                   *)
(***************************************************************************)
Name(str) == NamedMatrixToken(str)

\* C7: a named-matrix token ends before the next uppercase letter: "ABC" is
\* A, B, C; "ABc" is A, Bc; "AbC" is Ab, C; "Abc" is one token.
C7_NameEndsBeforeUppercase ==
    pc = "tokenised" =>
        /\ expression = <<"A", "B", "C">>
              => tokenised = TokensOk(<<Name(<<"A">>), Name(<<"B">>), Name(<<"C">>)>>)
        /\ expression = <<"A", "B", "c">>
              => tokenised = TokensOk(<<Name(<<"A">>), Name(<<"B", "c">>)>>)
        /\ expression = <<"A", "b", "C">>
              => tokenised = TokensOk(<<Name(<<"A", "b">>), Name(<<"C">>)>>)
        /\ expression = <<"A", "b", "c">>
              => tokenised = TokensOk(<<Name(<<"A", "b", "c">>)>>)
        /\ expression = <<"A", "B", "C", " ", "+", " ", "A", "2", "B">>
              => tokenised = TokensOk(<<Name(<<"A">>), Name(<<"B">>), Name(<<"C">>),
                                        Basic("Plus"), Name(<<"A">>),
                                        NumberToken(Dec(2, 0)), Name(<<"B">>)>>)
        /\ tokenised.type = "Ok" =>
              \A i \in 1..Len(tokenised.tokens) :
                  tokenised.tokens[i].type = "NamedMatrix" =>
                      \A j \in 2..Len(tokenised.tokens[i].name) :
                          tokenised.tokens[i].name[j] \notin Upper

IsWhitespace(str) == \A i \in 1..Len(str) : str[i] \in Whitespace

\* No alternative of the tokeniser matches at the start of str.
StartsNothing(str) ==
    \/ str = <<>>
    \/ /\ str[1] \notin Upper \cup DOMAIN Punctuation \cup Digit \cup Whitespace
       /\ ~StartsWith(str, <<"r", "o", "t">>)
       /\ ~(Len(str) >= 2 /\ str[1] = "." /\ str[2] \in Digit)
       /\ ~StartsWithNoCase(str, <<"n", "a", "n">>)
       /\ ~StartsWithNoCase(str, <<"i", "n", "f">>)

\* An exponent marker after a digit or a point that no digit follows
\* (directly or after a sign).
DanglingExponent(str) ==
    \E i \in 2..Len(str) :
        /\ str[i] \in {"e", "E"}
        /\ str[i - 1] \in Digit \cup {"."}
        /\ \/ i = Len(str)
           \/ str[i + 1] \notin Digit \cup {"+", "-"}
           \/ str[i + 1] \in {"+", "-"} /\ (i + 1 = Len(str) \/ str[i + 2] \notin Digit)

Evaluated(type) == pc = "evaluated" /\ ast.ast.type = type

IsNumber(r) == r.ok /\ r.value.type = "Number"

IsMatrix(r) == r.ok /\ r.value.type = "Matrix"

IsMatrixOf(r, dim) == IsMatrix(r) /\ r.value.matrix.dim = dim

\* r is a matrix of the dimension whose entry in row i of column j is E(i, j).
IsMatrixWith(r, dim, E(_, _)) ==
    /\ IsMatrixOf(r, dim)
    /\ DOMAIN r.value.matrix.cols = 1..dim
    /\ \A i \in 1..dim, j \in 1..dim : Entry(r.value.matrix, i, j) = E(i, j)

\* C11: Add(l, r) of two numbers is their sum, of two matrices of one
\* dimension their element-wise sum, of a number and a matrix
\* CannotAddNumberAndMatrix, of a 2D and a 3D matrix
\* CannotAddDifferentDimensions.
C11_Add ==
    Evaluated("Add") =>
        LET Outcome(l, r) ==
                LET SumOf(i, j) == RealAdd(Entry(l.value.matrix, i, j),
                                           Entry(r.value.matrix, i, j))
                IN  CASE IsNumber(l) /\ IsNumber(r) ->
                            /\ IsNumber(value)
                            /\ value.value.number = RealAdd(l.value.number, r.value.number)
                      [] IsNumber(l) # IsNumber(r) ->
                            value = EvaluationError("CannotAddNumberAndMatrix")
                      [] IsMatrix(l) /\ IsMatrix(r)
                            /\ l.value.matrix.dim = r.value.matrix.dim ->
                            IsMatrixWith(value, l.value.matrix.dim, SumOf)
                      [] OTHER -> value = EvaluationError("CannotAddDifferentDimensions")
        IN  LET Operands(l, r) == (l.ok /\ r.ok) => Outcome(l, r)
            IN  Operands(evaluate(ast.ast.left, env), evaluate(ast.ast.right, env))

\* C11's cases happen: a sum of two 2D matrices, and a sum of a 2D and a
\* 3D matrix that was refused.
C11_Witness ==
    /\ Evaluated("Add")
    /\ env = Map3
    /\ ast.ast.left = NamedMatrix(<<"A">>)
    /\ IsMatrixOf(evaluate(ast.ast.right, env), 2)
    /\ value = EvaluationError("CannotAddDifferentDimensions")

\* C12: Multiply(l, r) of two numbers is their product, of a number and a
\* matrix in either order the matrix with every entry scaled, of two
\* matrices of one dimension the matrix product left * right, of a 2D and a
\* 3D matrix CannotMultiplyDifferentDimensions.
C12_Multiply ==
    Evaluated("Multiply") =>
        LET Outcome(l, r) ==
                LET ScaledRight(i, j) == RealMul(l.value.number, Entry(r.value.matrix, i, j))
                    ScaledLeft(i, j) == RealMul(r.value.number, Entry(l.value.matrix, i, j))
                    Product(i, j) ==
                        Sum([k \in 1..l.value.matrix.dim |->
                                RealMul(Entry(l.value.matrix, i, k),
                                        Entry(r.value.matrix, k, j))],
                            l.value.matrix.dim)
                IN  CASE IsNumber(l) /\ IsNumber(r) ->
                            /\ IsNumber(value)
                            /\ value.value.number = RealMul(l.value.number, r.value.number)
                      [] IsNumber(l) /\ IsMatrix(r) ->
                            /\ IsMatrixWith(value, r.value.matrix.dim, ScaledRight)
                            /\ value = NumberOrMatrix_try_mul(r.value, l.value)
                      [] IsMatrix(l) /\ IsNumber(r) ->
                            /\ IsMatrixWith(value, l.value.matrix.dim, ScaledLeft)
                            /\ value = NumberOrMatrix_try_mul(r.value, l.value)
                      [] IsMatrix(l) /\ IsMatrix(r)
                            /\ l.value.matrix.dim = r.value.matrix.dim ->
                            IsMatrixWith(value, l.value.matrix.dim, Product)
                      [] OTHER ->
                            value = EvaluationError("CannotMultiplyDifferentDimensions")
        IN  LET Operands(l, r) == (l.ok /\ r.ok) => Outcome(l, r)
            IN  Operands(evaluate(ast.ast.left, env), evaluate(ast.ast.right, env))

\* C12's case happens: the product of two 2D matrices that do not commute,
\* A (a shear) and the quarter turn.
C12_Witness ==
    /\ Evaluated("Multiply")
    /\ env = MapAB
    /\ ast.ast.left = NamedMatrix(<<"A">>)
    /\ IsMatrixOf(evaluate(ast.ast.right, env), 2)
    /\ IsMatrixOf(value, 2)
    /\ value # evaluate(Multiply(ast.ast.right, ast.ast.left), env)

\* C13: Divide(l, r) by a matrix is CannotDivideByMatrix whatever l is; a
\* number by a number is the quotient; a matrix by a number is the matrix
\* scaled by the reciprocal, of the same dimension.
C13_Divide ==
    Evaluated("Divide") =>
        LET Outcome(l, r) ==
                LET Scaled(i, j) ==
                        RealMul(Entry(l.value.matrix, i, j), RealRecip(r.value.number))
                IN  CASE IsMatrix(r) -> value = EvaluationError("CannotDivideByMatrix")
                      [] IsNumber(l) ->
                            /\ IsNumber(value)
                            /\ value.value.number = RealDiv(l.value.number, r.value.number)
                      [] OTHER -> IsMatrixWith(value, l.value.matrix.dim, Scaled)
        IN  LET Operands(l, r) == (l.ok /\ r.ok) => Outcome(l, r)
            IN  Operands(evaluate(ast.ast.left, env), evaluate(ast.ast.right, env))

\* C13's case happens: a number was divided by a 3D matrix.
C13_Witness ==
    /\ Evaluated("Divide")
    /\ IsNumber(evaluate(ast.ast.left, env))
    /\ IsMatrixOf(evaluate(ast.ast.right, env), 3)
    /\ value = EvaluationError("CannotDivideByMatrix")

\* C14: a power that is the node NamedMatrix("T") is never looked up: the
\* result is the transpose of a base that is a matrix, and
\* CannotTransposeNumber for a base that is a number, in every map, those
\* that define T included.  Any other name as the power is looked up: it is
\* NameNotDefined in a map without it and a matrix, which no base can be
\* raised to, in a map with it.
C14_TransposeShortcut ==
    Evaluated("Exponent") =>
        LET Outcome(b) ==
                LET Transposed(i, j) == Entry(b.value.matrix, j, i)
                    name == ast.ast.power.name
                IN  CASE ast.ast.power = NamedMatrix(<<"T">>) /\ IsMatrix(b) ->
                            IsMatrixWith(value, b.value.matrix.dim, Transposed)
                      [] ast.ast.power = NamedMatrix(<<"T">>) /\ IsNumber(b) ->
                            value = EvaluationError("CannotTransposeNumber")
                      [] ast.ast.power.type = "NamedMatrix" /\ name # <<"T">> ->
                            IF name \in DOMAIN env
                            THEN value = EvaluationError("CannotRaiseToMatrix")
                            ELSE value = MatrixMapError(NameNotDefined(name))
                      [] OTHER -> TRUE
        IN  LET Base(b) == b.ok => Outcome(b)
            IN  Base(evaluate(ast.ast.base, env))

\* C14's case happens: A ^ T was evaluated in the map that defines T, and
\* the result is a matrix other than A.
C14_Witness ==
    /\ Evaluated("Exponent")
    /\ env = MapT
    /\ ast.ast = Exponent(NamedMatrix(<<"A">>), NamedMatrix(<<"T">>))
    /\ IsMatrixOf(value, 2)
    /\ value.value.matrix # env[<<"A">>]

\* The power of an Exponent node that is not a transposition was evaluated.
EvaluatedPower == Evaluated("Exponent") /\ ast.ast.power # NamedMatrix(<<"T">>)

\* Is the number x a whole number?
IsWhole(x) == ~IsOpaque(x) /\ x.d = 1

\* Is x no further than EPSILON, 0.000000001, from the nearest whole number?
IsNearlyWhole(x) ==
    /\ ~IsOpaque(x)
    /\ x.d # 0
    /\ \E q \in {x.n \div x.d, (x.n \div x.d) + 1} :
          \/ x.n = q * x.d
          \/ x.d \div Abs(x.n - q * x.d) >= EPSILON_RECIP

\* The typing rules of a power, with Whole(p) deciding which numbers a
\* matrix can be raised to: an error of the base, else an error of the
\* power, comes before every rule; then anything ^ matrix is
\* CannotRaiseToMatrix, number ^ number is powf, and matrix ^ number is
\* CannotRaiseMatrixToNonInteger exactly when the number is not Whole.
PowerTyping(Whole(_)) ==
    LET Outcome(b, p) ==
            CASE ~b.ok -> value = b
              [] ~p.ok -> value = p
              [] IsMatrix(p) -> value = EvaluationError("CannotRaiseToMatrix")
              [] IsNumber(b) ->
                    /\ IsNumber(value)
                    /\ value.value.number = RealPowf(b.value.number, p.value.number)
              [] OTHER ->
                    (value = EvaluationError("CannotRaiseMatrixToNonInteger"))
                        <=> ~Whole(p.value.number)
    IN  Outcome(evaluate(ast.ast.base, env), evaluate(ast.ast.power, env))

\* C15 as stated: a matrix raised to a number that is not an integer is
\* CannotRaiseMatrixToNonInteger.
C15_PowerTypingAsStated == EvaluatedPower => PowerTyping(IsWhole)

\* C15, amended: a matrix raised to a number further than 0.000000001 from
\* the nearest whole number is CannotRaiseMatrixToNonInteger; a number
\* within that distance is taken as the whole number.
C15_PowerTyping == EvaluatedPower => PowerTyping(IsNearlyWhole)

\* C15's case happens: the matrix A was raised to 0.000000001, which was
\* taken as 0.
C15_Witness ==
    /\ EvaluatedPower
    /\ env = MapAB
    /\ ast.ast = Exponent(NamedMatrix(<<"A">>), Number(Dec(1, -9)))
    /\ value = Value(MatrixValue(Identity(2)))

RECURSIVE KFold(_, _)
\* m * m * ... * m with k factors, the identity for k = 0.
KFold(m, k) ==
    IF k = 0
    THEN Matrix(m.dim, [j \in 1..m.dim |->
                           [i \in 1..m.dim |-> IF i = j THEN Real(1, 1) ELSE Real(0, 1)]])
    ELSE MatMul(KFold(m, k - 1), m)

\* C16: a matrix raised to a whole number k of 0..MaxPower is the k-fold
\* product of the matrix, the identity of its dimension for k = 0; it is
\* what integer_power returns, which returns the matrix itself for k = 1.
C16_IntegerPower ==
    EvaluatedPower =>
        LET Outcome(b, p) ==
                (IsMatrix(b) /\ IsNumber(p) /\ IsWhole(p.value.number)
                    /\ p.value.number.n \in 0..MaxPower)
                    => /\ value = Value(MatrixValue(KFold(b.value.matrix, p.value.number.n)))
                       /\ integer_power(b.value.matrix, p.value.number.n)
                              = KFold(b.value.matrix, p.value.number.n)
                       /\ integer_power(b.value.matrix, 1) = b.value.matrix
        IN  Outcome(evaluate(ast.ast.base, env), evaluate(ast.ast.power, env))

\* C16's case happens: [0.5 0; 1 1] was raised to the power MaxPower.
C16_Witness ==
    /\ EvaluatedPower
    /\ ast.ast = Exponent(Literal2(Dec(5, -1), Dec(0, 0), Dec(1, 0), Dec(1, 0)),
                          Number(Normalise(MaxPower, 0)))
    /\ IsMatrixOf(value, 2)
    /\ Entry(value.value.matrix, 1, 1) = Real(1, Pow2(MaxPower))

\* Is the matrix m the inverse of the matrix n?
IsInverseOf(m, n) == m.dim = n.dim /\ MatMul(m, n) = KFold(n, 0) /\ MatMul(n, m) = KFold(n, 0)

\* The rules of a negative power, with Negative(p) deciding which numbers
\* are negative powers and Invertible(m, k) which matrices m ^ k has an
\* inverse for: the result is the inverse of the k-fold product, or
\* CannotInvertSingularMatrix; and m ^ k times m ^ -k is the identity for a
\* whole k of -MaxInverse..MaxInverse when both can be inverted.
NegativePower(Negative(_), Invertible(_, _)) ==
    LET Product(k, opposite) ==
            /\ IsMatrix(value)
            /\ IsMatrix(opposite)
            /\ MatMul(value.value.matrix, opposite.value.matrix)
                   = KFold(value.value.matrix, 0)
        Outcome(m, p, k) ==
            /\ Negative(p) =>
                  IF Invertible(m, k)
                  THEN IsMatrix(value) /\ IsInverseOf(value.value.matrix, KFold(m, k))
                  ELSE value = EvaluationError("CannotInvertSingularMatrix")
            /\ (IsWhole(p) /\ Invertible(m, k)) =>
                  Product(k, evaluate(Exponent(ast.ast.base, Number(Normalise(-p.n, 0))), env))
        Operands(b, p) ==
            (IsMatrix(b) /\ IsNumber(p) /\ ~IsOpaque(p.value.number)
                /\ p.value.number.d # 0 /\ Abs(Round(p.value.number).n) <= MaxInverse)
                => Outcome(b.value.matrix, p.value.number, Abs(Round(p.value.number).n))
    IN  Operands(evaluate(ast.ast.base, env), evaluate(ast.ast.power, env))

\* round(p) < 0
RoundsBelowZero(p) == Round(p).n < 0

\* A matrix whose determinant is not zero has an inverse, and so have its
\* powers.
HasInverse(m, k) == Determinant(m) # Real(0, 1)

\* p is within EPSILON of a whole number below zero.
IsNegativePower(p) == IsNearlyWhole(p) /\ Round(p).n < 0

\* The determinant of m ^ k is further than EPSILON from zero.
IsInvertedAt(m, k) ==
    LET Far(det) == det.d = 0 \/ (det.n # 0 /\ det.d \div Abs(det.n) < EPSILON_RECIP)
    IN  Far(Determinant(KFold(m, k)))

\* C17 as stated: a matrix raised to a number p with round(p) < 0 is the
\* inverse of base ^ |round(p)| when the base is invertible, and
\* CannotInvertSingularMatrix when its determinant is zero; m ^ k times
\* m ^ -k is the identity for every invertible m.
C17_NegativePowerAsStated == EvaluatedPower => NegativePower(RoundsBelowZero, HasInverse)

\* C17, amended: for a number p within 0.000000001 of a whole number below
\* zero, the result is the inverse of base ^ |round(p)| when the
\* determinant of that power is further than 0.000000001 from zero, and
\* CannotInvertSingularMatrix otherwise; m ^ k times m ^ -k is the identity
\* for the matrices m whose power m ^ |k| has such a determinant.
C17_NegativePower == EvaluatedPower => NegativePower(IsNegativePower, IsInvertedAt)

\* C17's case happens: [0.5 0; 1 1] ^ -MaxInverse was evaluated to an
\* inverse.
C17_Witness ==
    /\ EvaluatedPower
    /\ ast.ast = Exponent(Literal2(Dec(5, -1), Dec(0, 0), Dec(1, 0), Dec(1, 0)),
                          Number(Normalise(-MaxInverse, 0)))
    /\ IsMatrixOf(value, 2)
    /\ Entry(value.value.matrix, 1, 1) = Real(Pow2(MaxInverse), 1)

Operands(node) ==
    IF node.type = "Exponent" /\ node.power = NamedMatrix(<<"T">>) THEN <<node.base>>
    ELSE Children(node)

RECURSIVE Evaluands(_)
\* The sub-expressions evaluate may come to evaluate, the tree included.
Evaluands(node) ==
    {node} \cup UNION {Evaluands(Operands(node)[i]) : i \in 1..Len(Operands(node))}

\* The errors of the operators themselves.
TypingErrors ==
    { "CannotMultiplyDifferentDimensions", "CannotAddDifferentDimensions",
      "CannotDivideByMatrix", "CannotAddNumberAndMatrix", "CannotRaiseToMatrix",
      "CannotRaiseMatrixToNonInteger", "CannotInvertSingularMatrix",
      "CannotTransposeNumber" }

\* C27: when the first operand of a node fails, its error is the result,
\* whatever the second does; when only the second fails, its error is;
\* an error of the operator itself is returned only when every operand
\* evaluated; and when any sub-expression that is evaluated fails, the
\* evaluation fails, with the error of a sub-expression whose own operands
\* all evaluated.
C27_LeftToRight ==
    pc = "evaluated" =>
        LET Result(node) == evaluate(node, env)
            Failed(node) == ~Result(node).ok
            First(node) ==
                \A i \in 1..Len(Operands(node)) :
                    (Failed(Operands(node)[i])
                        /\ \A j \in 1..(i - 1) : ~Failed(Operands(node)[j]))
                    => Result(node) = Result(Operands(node)[i])
            Own(node) ==
                (Failed(node) /\ \A i \in 1..Len(Operands(node)) : ~Failed(Operands(node)[i]))
                    => IF Operands(node) = <<>>
                       THEN Result(node).error.variant = "MatrixMapError"
                       ELSE Result(node).error.variant \in TypingErrors
        IN  /\ \A s \in Evaluands(ast.ast) : First(s) /\ Own(s)
            /\ Len(Operands(ast.ast)) = 2 /\ Failed(Operands(ast.ast)[1])
                  => value = Result(Operands(ast.ast)[1])
            /\ Len(Operands(ast.ast)) = 2 /\ ~Failed(Operands(ast.ast)[1])
                    /\ Failed(Operands(ast.ast)[2])
                  => value = Result(Operands(ast.ast)[2])
            /\ (\E s \in Evaluands(ast.ast) : Failed(s)) =>
                  /\ ~value.ok
                  /\ \E s \in Evaluands(ast.ast) :
                        /\ value = Result(s)
                        /\ \A i \in 1..Len(Operands(s)) : ~Failed(Operands(s)[i])
            /\ value.ok => \A s \in Evaluands(ast.ast) : ~Failed(s)

\* C27's case happens: in a map without names, (2 + [0 -1; 1 0]) * B failed
\* with the error of its left operand, CannotAddNumberAndMatrix, not with
\* NameNotDefined("B").
C27_Witness ==
    /\ pc = "evaluated"
    /\ env = EmptyMap
    /\ ast.ast.type = "Multiply"
    /\ ast.ast.left = Add(Number(Dec(2, 0)),
                          Literal2(Dec(0, 0), Dec(-1, 0), Dec(1, 0), Dec(0, 0)))
    /\ ast.ast.right = NamedMatrix(<<"B">>)
    /\ value = EvaluationError("CannotAddNumberAndMatrix")

(***************************************************************************)
(* Properties of the matrix map, checked under SpecMap                     *)
(***************************************************************************)
\* The last call was op(name, ..).
Called(op) == call # NotYet /\ call.op = op

\* What get(name) is to return after the calls so far, for a valid name.
LastSet(name) ==
    IF name \in DOMAIN written THEN [ok |-> TRUE, value |-> written[name]]
    ELSE [ok |-> FALSE, error |-> NameNotDefined(name)]

\* The binding of a name in a map: its matrix, or nothing.
Binding(map, name) == IF name \in DOMAIN map THEN <<map[name]>> ELSE <<>>

\* C18: get(n) of a valid name returns the matrix of the last successful
\* set(n, ..), or NameNotDefined(n) when there was none; a set binds its
\* name to its matrix, also when the name was bound, and leaves every
\* other name as it was; a get leaves the map as it was.
C18_LastSet ==
    [][ /\ \A n \in ValidNames : MatrixMap_get(env', n) = LastSet(n)'
        /\ Called("get")' =>
              /\ env' = env
              /\ call'.name \in ValidNames => value' = LastSet(call'.name)
        /\ (Called("set")' /\ call'.name \in ValidNames) =>
              /\ value' = Unit
              /\ Binding(env', call'.name) = <<call'.matrix>>
              /\ \A n \in (ValidNames \cup InvalidNames) \ {call'.name} :
                    Binding(env', n) = Binding(env, n) ]_vars

\* C18's case happens: a get returned a matrix from a map of two names.
C18_Witness ==
    /\ Called("get")
    /\ call.name = <<"A">>
    /\ value = [ok |-> TRUE, value |-> MapAB[<<"B">>]]
    /\ <<"B">> \in DOMAIN env
    /\ env[<<"B">>] = MapAB[<<"A">>]

\* C19: set of an invalid name returns InvalidName(name) and leaves the map
\* as it was; get of an invalid name returns InvalidName; every key of the
\* map is a valid name.
C19_InvalidName ==
    [][ /\ (Called("set")' /\ call'.name \in InvalidNames) =>
              /\ value' = [ok |-> FALSE, error |-> InvalidName(call'.name)]
              /\ env' = env
        /\ (Called("get")' /\ call'.name \in InvalidNames) =>
              value' = [ok |-> FALSE, error |-> InvalidName(call'.name)]
        /\ \A n \in DOMAIN env' : is_valid(n) ]_vars

\* C19's case happens: a set of the name "m" was refused by a map that
\* holds a name.
C19_Witness ==
    /\ Called("set")
    /\ call.name = <<"m">>
    /\ value = [ok |-> FALSE, error |-> InvalidName(<<"m">>)]
    /\ DOMAIN env = {<<"A">>}

(***************************************************************************)
(* Properties of signs, checked under SpecString                           *)
(***************************************************************************)
\* C21: "3 * [2 -2.2; 1.5 10]" parses to 3 times the 2D literal whose
\* second column starts with -2.2 and evaluates to a 2D matrix, and
\* "[1 2 3; 5 3 1; -3 4 2]" parses to a 3D literal: a '-' before a number
\* inside a matrix literal negates the entry.
C21_NegativeEntries ==
    /\ (pc = "parsed" /\ expression = ScaledLiteral) =>
          /\ ast.type = "Ok"
          /\ ast.ast.type = "Multiply"
          /\ ast.ast.left = Number(Dec(3, 0))
          /\ ast.ast.right.type = "Anonymous2dMatrix"
          /\ ast.ast.right.matrix.y_axis[1].m = -22
          /\ IsMatrixOf(evaluate(ast.ast, EmptyMap), 2)
    /\ (pc = "parsed" /\ expression = PrintedLiteral) =>
          /\ ast.type = "Ok"
          /\ ast.ast.type = "Anonymous3dMatrix"
          /\ ast.ast.matrix.x_axis[3].m = -3

\* A literal below zero.
IsNegative(num) == num.kind # "nan" /\ num.m < 0

\* The positions of the character c that do not follow an exponent marker.
Unmarked(str, c) ==
    {i \in 1..Len(str) : str[i] = c /\ (i = 1 \/ str[i - 1] \notin {"e", "E"})}

\* How many of the tokens are the basic token type.
Count(toks, type) == Cardinality({i \in 1..Len(toks) : toks[i] = Basic(type)})

\* C23: no Number token of a tokenised string is negative: a '-' or '+'
\* that is not the sign of a float's exponent is a Minus or Plus token of
\* its own ("-2" is Minus, 2; "2-2" is 2, Minus, 2), so there are at least
\* as many Minus tokens as such '-' characters, and no more Minus tokens
\* than '-' characters.
C23_NoNegativeLiteral ==
    (pc = "tokenised" /\ tokenised.type = "Ok") =>
        /\ \A i \in 1..Len(tokenised.tokens) :
              tokenised.tokens[i].type = "Number" => ~IsNegative(tokenised.tokens[i].value)
        /\ Count(tokenised.tokens, "Minus") >= Cardinality(Unmarked(expression, "-"))
        /\ Count(tokenised.tokens, "Minus")
              <= Cardinality({i \in 1..Len(expression) : expression[i] = "-"})
        /\ Count(tokenised.tokens, "Plus") >= Cardinality(Unmarked(expression, "+"))
        /\ expression = <<"-", "2">> => tokenised.tokens = <<Basic("Minus"), Two>>
        /\ expression = <<"2", "-", "2">> => tokenised.tokens = <<Two, Basic("Minus"), Two>>

\* C23's case happens: "[1 2; 3 -5]" was tokenised with a Minus before
\* the 5.
C23_Witness ==
    /\ pc = "tokenised"
    /\ expression = <<"[", "1", " ", "2", ";", " ", "3", " ", "-", "5", "]">>
    /\ tokenised.type = "Ok"
    /\ Len(tokenised.tokens) = 8
    /\ tokenised.tokens[6] = Basic("Minus")
    /\ tokenised.tokens[7] = NumberToken(Dec(5, 0))

(***************************************************************************)
(* Properties of the unary minus, checked under SpecTokens                 *)
(***************************************************************************)
\* The leaf a name or number token parses to.
LeafOf(t) == IF t.type = "Number" THEN Number(t.value) ELSE NamedMatrix(t.name)

RECURSIVE Negations(_)
\* The number of Negate nodes of a tree.
Negations(node) ==
    CASE node.type = "Negate" -> 1 + Negations(node.term)
      [] Len(Children(node)) = 2 ->
            Negations(Children(node)[1]) + Negations(Children(node)[2])
      [] OTHER -> 0

IsMinus(t) == t = Basic("Minus")

\* The binary node of an operator token.
BinaryOf(op, left, right) ==
    CASE op = Basic("Plus") -> Add(left, right)
      [] op = Basic("Star") -> Multiply(left, right)
      [] op = Basic("Slash") -> Divide(left, right)
      [] op = Basic("Caret") -> Exponent(left, right)

\* C22: a Minus where a term starts parses to Negate of the term that
\* follows: "- x" to Negate(x), "- - x" to Negate(Negate(x)), "y op - x" to
\* op(y, Negate(x)) for *, /, + and for ^ without braces; and every Minus
\* of a token list that parses is one Negate node of the AST.
C22_NegateTerm ==
    pc = "parsed" =>
        /\ (Len(tokens) = 2 /\ IsMinus(tokens[1]) /\ IsLeafToken(tokens[2])) =>
              ast = AstOk(Negate(LeafOf(tokens[2])))
        /\ (Len(tokens) = 3 /\ IsMinus(tokens[1]) /\ IsMinus(tokens[2])
                /\ IsLeafToken(tokens[3])) =>
              ast = AstOk(Negate(Negate(LeafOf(tokens[3]))))
        /\ (Len(tokens) = 4 /\ IsLeafToken(tokens[1]) /\ IsMinus(tokens[3])
                /\ tokens[2] \in {Basic(t) : t \in {"Plus", "Star", "Slash", "Caret"}}
                /\ IsLeafToken(tokens[4])) =>
              ast = AstOk(BinaryOf(tokens[2], LeafOf(tokens[1]), Negate(LeafOf(tokens[4]))))
        /\ ast.type = "Ok" =>
              Negations(ast.ast) = Cardinality({i \in 1..Len(tokens) : IsMinus(tokens[i])})

\* C22's case happens: A ^ - 1 was parsed to Exponent(A, Negate(1)).
C22_Witness ==
    /\ pc = "parsed"
    /\ tokens = <<A, Basic("Caret"), Basic("Minus"), One>>
    /\ ast = AstOk(Exponent(NamedMatrix(<<"A">>), Negate(Number(Dec(1, 0)))))

(***************************************************************************)
(* Properties of the pretty-printer, checked under SpecAst                 *)
(***************************************************************************)
IsCompound(node) == node.type \in {"Multiply", "Divide", "Add", "Negate", "Exponent"}

\* A node as an operand: its own string, in parentheses when it is an
\* operator node.
Operand(node) ==
    IF IsCompound(node) THEN <<"(">> \o to_expression_string(node) \o <<")">>
    ELSE to_expression_string(node)

\* The string of an operator node, put together from the strings of its
\* children.
Composed(node) ==
    CASE node.type = "Multiply" -> Operand(node.left) \o <<" ", "*", " ">> \o Operand(node.right)
      [] node.type = "Divide" -> Operand(node.left) \o <<" ", "/", " ">> \o Operand(node.right)
      [] node.type = "Add" -> Operand(node.left) \o <<" ", "+", " ">> \o Operand(node.right)
      [] node.type = "Negate" -> <<"-">> \o Operand(node.term)
      [] node.type = "Exponent" ->
            Operand(node.base) \o <<" ", "^", " ", "{">>
                \o to_expression_string(node.power) \o <<"}">>

RECURSIVE Parentheses(_)
\* The pairs of parentheses the string of a tree is to have: one for every
\* operator node that is an operand, none for the tree itself or for a
\* power, and the pair that "rot(..)" is written with.
Parentheses(node) ==
    LET Pairs(child) == Parentheses(child) + (IF IsCompound(child) THEN 1 ELSE 0)
    IN  CASE node.type \in {"Multiply", "Divide", "Add"} -> Pairs(node.left) + Pairs(node.right)
          [] node.type = "Negate" -> Pairs(node.term)
          [] node.type = "Exponent" -> Pairs(node.base) + Parentheses(node.power)
          [] node.type = "RotationMatrix" -> 1
          [] OTHER -> 0

RECURSIVE Exponents(_)
\* The number of Exponent nodes of a tree.
Exponents(node) ==
    CASE node.type = "Exponent" -> 1 + Exponents(node.base) + Exponents(node.power)
      [] node.type = "Negate" -> Exponents(node.term)
      [] node.type \in {"Multiply", "Divide", "Add"} ->
            Exponents(node.left) + Exponents(node.right)
      [] OTHER -> 0

Occurrences(str, c) == Cardinality({i \in 1..Len(str) : str[i] = c})

\* C24: the string of an operator node is made of the strings of its
\* operands, each in one pair of parentheses when it is itself an operator
\* node and bare when it is a leaf; the power of an Exponent stands in
\* braces, without parentheses of its own; the string as a whole has no
\* parentheses around it; so the string has one pair of parentheses for
\* every operator node that is an operand and one pair of braces for
\* every Exponent.  M * (2 + M), 2 + (-M) and -M are printed so.
C24_Parentheses ==
    pc = "string" =>
        /\ IsCompound(original) => expression = Composed(original)
        /\ Occurrences(expression, "(") = Parentheses(original)
        /\ Occurrences(expression, ")") = Parentheses(original)
        /\ Occurrences(expression, "{") = Exponents(original)
        /\ Occurrences(expression, "}") = Exponents(original)
        /\ original = Multiply(NamedMatrix(<<"A">>), Add(Number(Dec(2, 0)), NamedMatrix(<<"A">>)))
              => expression = <<"A", " ", "*", " ", "(", "2", " ", "+", " ", "A", ")">>
        /\ original = Add(Number(Dec(2, 0)), Negate(NamedMatrix(<<"A">>)))
              => expression = <<"2", " ", "+", " ", "(", "-", "A", ")">>
        /\ original = Negate(NamedMatrix(<<"A">>)) => expression = <<"-", "A">>

\* C24's case happens: Exponent(A, Add(2, A)) was printed with the power
\* in braces and no parentheses.
C24_Witness ==
    /\ pc = "string"
    /\ original = Exponent(NamedMatrix(<<"A">>), Add(Number(Dec(2, 0)), NamedMatrix(<<"A">>)))
    /\ expression = <<"A", " ", "^", " ", "{", "2", " ", "+", " ", "A", "}">>

\* A matrix literal none of whose entries is below zero.
IsNonNegativeLiteral(node) ==
    /\ node.type \in {"Anonymous2dMatrix", "Anonymous3dMatrix"}
    /\ \A i \in 1..Len(Leaves(node)) : ~IsNegative(Leaves(node)[i].value)

\* C25: [a b; c d] is the matrix of the columns (a, c) and (b, d): the
\* literal of the columns (1, 3) and (2, 4) is printed "[1 2; 3 4]", and
\* the string printed for a 2D or 3D literal without a negative entry
\* parses to the same literal.
C25_ColumnMajor ==
    /\ (pc = "string" /\ original = Anonymous2dMatrix(DMat2(DVec2(Dec(1, 0), Dec(3, 0)),
                                                           DVec2(Dec(2, 0), Dec(4, 0))))) =>
          expression = <<"[", "1", " ", "2", ";", " ", "3", " ", "4", "]">>
    /\ (pc = "parsed" /\ IsNonNegativeLiteral(original)) => ast = AstOk(original)

(***************************************************************************)
(* Properties of named_matrices, checked under SpecNames                   *)
(***************************************************************************)
\* The names of all NamedMatrix nodes of a tree, from left to right.
AllNames(node) ==
    LET named == SelectSeq(Leaves(node), LAMBDA t : t.type = "NamedMatrix")
    IN  [i \in 1..Len(named) |-> named[i].name]

RECURSIVE WithoutTransposes(_)
\* The tree with every transposition b ^ T replaced by b.
WithoutTransposes(node) ==
    CASE node.type = "Multiply" ->
            Multiply(WithoutTransposes(node.left), WithoutTransposes(node.right))
      [] node.type = "Divide" ->
            Divide(WithoutTransposes(node.left), WithoutTransposes(node.right))
      [] node.type = "Add" -> Add(WithoutTransposes(node.left), WithoutTransposes(node.right))
      [] node.type = "Negate" -> Negate(WithoutTransposes(node.term))
      [] node.type = "Exponent" ->
            IF node.power = NamedMatrix(<<"T">>) THEN WithoutTransposes(node.base)
            ELSE Exponent(WithoutTransposes(node.base), WithoutTransposes(node.power))
      [] OTHER -> node

\* C26: named_matrices returns the names of the NamedMatrix nodes from left
\* to right, duplicates kept, without the T of a transposition b ^ T: T + A
\* gives T, A; A + A gives A, A; A ^ T gives A; T ^ T gives T.
C26_NamedMatrices ==
    names.type = "Vec" =>
        /\ names.items = AllNames(WithoutTransposes(ast.ast))
        /\ ast.ast = Add(NamedMatrix(<<"T">>), NamedMatrix(<<"A">>)) => names.items = <<<<"T">>, <<"A">>>>
        /\ ast.ast = Add(NamedMatrix(<<"A">>), NamedMatrix(<<"A">>)) => names.items = <<<<"A">>, <<"A">>>>
        /\ ast.ast = Exponent(NamedMatrix(<<"A">>), NamedMatrix(<<"T">>)) => names.items = <<<<"A">>>>
        /\ ast.ast = Exponent(NamedMatrix(<<"T">>), NamedMatrix(<<"T">>)) => names.items = <<<<"T">>>>
        /\ ast.ast = Exponent(NamedMatrix(<<"A">>), NamedMatrix(<<"B">>))
              => names.items = <<<<"A">>, <<"B">>>>

\* C26's case happens: the names of T ^ T are the base alone.
C26_Witness ==
    /\ names = Vec(<<<<"T">>>>)
    /\ ast.ast = Exponent(NamedMatrix(<<"T">>), NamedMatrix(<<"T">>))

\* The evaluation failed with NameNotDefined(name).
IsNameNotDefined(r, name) ==
    /\ ~r.ok
    /\ r.error.variant = "MatrixMapError"
    /\ r.error.error = NameNotDefined(name)

Listed == {names.items[i] : i \in 1..Len(names.items)}

\* C30: a name that evaluate does not find in the map is one of the names
\* named_matrices lists, so an AST all of whose listed names are defined
\* never evaluates to NameNotDefined; the T of a transposition is not
\* listed and not looked up.
C30_NamesCoverLookups ==
    (pc = "evaluated" /\ names.type = "Vec") =>
        /\ \A n \in EvalNames : IsNameNotDefined(value, n.name) => n.name \in Listed \ DOMAIN env
        /\ Listed \subseteq DOMAIN env =>
              ~(\E n \in EvalNames : IsNameNotDefined(value, n.name))

\* C30's case happens: A ^ T was evaluated in a map that defines A and B
\* and no T; A alone is listed and the result is the transpose of A.
C30_Witness ==
    /\ pc = "evaluated"
    /\ ast.ast = Exponent(NamedMatrix(<<"A">>), NamedMatrix(<<"T">>))
    /\ env = MapAB
    /\ names = Vec(<<<<"A">>>>)
    /\ value = Value(MatrixValue(Transpose(MapAB[<<"A">>])))

(***************************************************************************)
(* Properties of integer_power's loop, checked under SpecPower             *)
(***************************************************************************)
\* floor(log2 k) for k >= 1; it is at most k \div 2.
FloorLog2(k) == CHOOSE n \in 0..(k \div 2) : Pow2(n) <= k /\ k < 2 * Pow2(n)

\* The bits of k that are set; none lies above k \div 2.
SetBits(k) == {i \in 0..(k \div 2) : (k \div Pow2(i)) % 2 = 1}

\* i, i - 1, .., 0
Downwards(i) == [j \in 1..(i + 1) |-> i + 1 - j]

\* C28: a run of integer_power(b, k) with k >= 1 that has returned has
\* squared floor(log2 k) times and multiplied by b once for each set bit
\* of k below the top one, at most 2 * floor(log2 k) products in all, and
\* has visited the bits from the one below the top bit down to bit 0; a
\* run with k = 0 or k = 1 has computed no product.
C28_OperationCount ==
    pc = "returned" =>
        /\ run.power >= 1 =>
              /\ run.squarings = FloorLog2(run.power)
              /\ run.multiplications = Cardinality(SetBits(run.power) \ {FloorLog2(run.power)})
              /\ run.squarings + run.multiplications <= 2 * FloorLog2(run.power)
              /\ run.visited = Downwards(FloorLog2(run.power) - 1)
        /\ run.power \in {0, 1} => run.squarings + run.multiplications = 0

\* C28's case happens: a run for the power MaxPower has returned
\* integer_power's result, after floor(log2 MaxPower) squarings and one
\* multiplication for each set bit below the top one.
C28_Witness ==
    /\ pc = "returned"
    /\ run.power = MaxPower
    /\ run.squarings = FloorLog2(MaxPower)
    /\ run.multiplications = Cardinality(SetBits(MaxPower)) - 1
    /\ run.num = integer_power(run.base, MaxPower)

(***************************************************************************)
(* Properties of the parser's recursion, checked under SpecDescent         *)
(***************************************************************************)
\* The grammar level of a function: the entry point, the levels of the
\* grammar from the expression down to the term, the tokens' parsers.
Level(fn) ==
    CASE fn = "parse_tokens_into_ast" -> 8
      [] fn = "parse_expression" -> 7
      [] fn = "parse_addition" -> 6
      [] fn = "parse_multiply" -> 5
      [] fn = "parse_divide" -> 4
      [] fn = "parse_exponent" -> 3
      [] fn = "parse_term" -> 2
      [] fn \in {"parse_rotation_matrix", "parse_anonymous_2d_matrix",
                 "parse_anonymous_3d_matrix"} -> 1
      [] OTHER -> 0

\* The calls that can follow one another from a list of n tokens: each
\* shortens the list or lowers the level.
MaxDepth(n) == (Level("parse_tokens_into_ast") + 1) * n + Level("parse_tokens_into_ast")

\* C29: every call of a parsing function is made with a strictly shorter
\* token list, or with the same list by a function of a strictly lower
\* level; so no path of calls from parse_tokens_into_ast is longer than
\* the levels times the tokens allow, and none goes on for ever.
C29_Terminates ==
    /\ [][ frame' # frame =>
               \/ Len(frame'.toks) < Len(frame.toks)
               \/ frame'.toks = frame.toks /\ Level(frame'.fn) < Level(frame.fn) ]_vars
    /\ [](frame.depth <= MaxDepth(Len(tokens)))

\* C29's case happens: in A * (B + 2), parse_term has called
\* parse_expression with what follows the OpenParen, and the calls have
\* gone down to parse_number at the 2 and ended there.
C29_Witness ==
    /\ pc = "returned"
    /\ tokens = <<A, Basic("Star"), Basic("OpenParen"), B, Basic("Plus"), Two,
                  Basic("CloseParen")>>
    /\ frame.fn = "parse_number"
    /\ frame.toks = <<Two, Basic("CloseParen")>>
    /\ frame.depth > Level("parse_tokens_into_ast")

====
